---- MODULE Spec2Model ----
(***************************************************************************)
(* Model of the waveform ingestion code of the signal viewer's Medical     *)
(* page (src/Frontend/app/src/pages/Medical.jsx): the WFDB header parser   *)
(* parseHea, the binary frame decoder parseDat, the delimited text parser  *)
(* parseXyz and the assembly of the channel model by _applySignals; the    *)
(* channel controls; and the pair views of two selected channels: the XOR  *)
(* transform, the Polar plot and its statistics, and the Trajectory        *)
(* statistics of the Recurrence view.                                      *)
(*                                                                         *)
(* Spec is the WFDB panel, SpecHea, SpecDat and SpecXyz apply one parser   *)
(* to one input, SpecView is an .xyz upload followed by channel controls,  *)
(* and SpecXor, SpecPolar and SpecRec draw one pair view of a loaded       *)
(* two-channel model.  SpecPlay is playback of recordings dropped on the   *)
(* WFDB panel (buttons, zoom, speed, selectors, the interval's ticks),     *)
(* SpecPanels is playback while channel visibility and the display mode    *)
(* change, SpecModes takes the render effects of the four viewer modes in  *)
(* any order, and SpecSess is the uploads through the backend, whose       *)
(* responses arrive in any order, with the WFDB panel and Send for         *)
(* Analysis.  A handler is one step together with the run of the playback  *)
(* effect it causes; an interval is kept with the values its callback      *)
(* closes over.                                                            *)
(*                                                                         *)
(* Representation.  A JavaScript string is a sequence of one-character     *)
(* strings.  A JavaScript number is a pair <<n, d>>: the rational n/d in   *)
(* lowest terms with d > 0, and <<0, 0>> for NaN (double arithmetic is     *)
(* taken as exact; the single-precision store of a Float32Array is         *)
(* modelled bit-exactly by fround).  Infinity is <<1, 0>>, -Infinity is    *)
(* <<-1, 0>>.  A single-precision value is a pair <<m, e>> standing for    *)
(* m * 2^(-e) with m odd, <<0, 0>> for zero, and <<0, 1>>, <<0, 2>>,       *)
(* <<0, 3>> for NaN, Infinity and -Infinity.  A correlation, the quotient  *)
(* of a covariance by two square roots, is a pair <<sign, square>>.        *)
(***************************************************************************)
EXTENDS Integers, Sequences, FiniteSets, TLC

VARIABLES
    heaText,    \* parseHea: the text handed to the parser
    heaOut,     \* parseHea: its outcome
    datBuf,     \* parseDat: the byte buffer handed to the decoder
    datMeta,    \* parseDat: the metadata handed to the decoder
    datOut,     \* parseDat: its outcome
    xyzText,    \* parseXyz: the text handed to the parser
    xyzOut,     \* parseXyz: its outcome
    heaFile,    \* WFDB panel: content of the dropped .hea file
    datFile,    \* WFDB panel: content of the dropped .dat file
    heaMeta,    \* WFDB panel: React state heaMeta
    graphData,  \* WFDB panel: React state graphData
    channels,   \* WFDB panel: React state channels
    datFileRef, \* WFDB panel: React state datFileRef (the file kept for sending)
    pairSel,    \* WFDB panel: React state chA, chB, sampleCount, allSamples
    loading,    \* WFDB panel: React state loading
    alertMsg,   \* WFDB panel: the last alert shown to the user
    viewerMode, \* viewer: React state viewerMode
    chunkSize,  \* viewer: React state chunkSize
    periodicity,\* viewer: React state periodicity
    plot,       \* viewer: what the render effect last handed to Plotly.react
    stats,      \* viewer: what the statistics card last computed
    signalType, \* session: React state signalType
    fileFormat, \* session: React state fileFormat
    reports,    \* session: React state aiReport and mlReport
    requests,   \* session: the requests sent to the backend, in order of issue
    playing,    \* playback: React state playing
    speed,      \* playback: React state speed
    windowSize, \* playback: React state windowSize
    playIndex,  \* playback: playIndexRef.current
    stoppedIndex, \* playback: stoppedIndexRef.current
    displayMode,  \* playback: React state displayMode
    timers,     \* playback: the intervals that are set, each with its closure
    relayout    \* playback: what the last tick handed to Plotly.relayout

parseVars ==
    <<heaText, heaOut, datBuf, datMeta, datOut, xyzText, xyzOut>>

panelVars ==
    <<heaFile, datFile, heaMeta, graphData, channels, datFileRef, pairSel,
      loading, alertMsg>>

viewVars ==
    <<viewerMode, chunkSize, periodicity, plot, stats>>

sessVars ==
    <<signalType, fileFormat, reports, requests>>

playVars ==
    <<playing, speed, windowSize, playIndex, stoppedIndex, displayMode,
      timers, relayout>>

vars ==
    <<parseVars, panelVars, viewVars, sessVars, playVars>>

-----------------------------------------------------------------------------
(* JavaScript numbers *)

NaN ==
    <<0, 0>>

IsNaN(x) ==
    x = NaN

Abs(n) ==
    IF n < 0 THEN -n ELSE n

RECURSIVE GCD(_, _)
GCD(a, b) ==
    IF b = 0 THEN a ELSE GCD(b, a % b)

Sign(n) ==
    IF n > 0 THEN 1 ELSE IF n < 0 THEN -1 ELSE 0

\* the number n / d for integers n and d: the rational in lowest terms with
\* a positive denominator; NaN for 0 / 0 and an infinity for n / 0
Rat(n, d) ==
    LET g == GCD(Abs(n), Abs(d))
        s == IF d < 0 THEN -1 ELSE 1
    IN  IF d = 0 THEN <<Sign(n), 0>>
        ELSE <<(s * n) \div g, (s * d) \div g>>

IsFinite(x) ==
    x[2] # 0

\* ToBoolean of a number: 0 and NaN are falsy
Falsy(x) ==
    x[1] = 0

\* x || dflt on numbers
OrElse(x, dflt) ==
    IF Falsy(x) THEN dflt ELSE x

\* Math.floor(a / b) for integers a and b # 0
FloorDiv(a, b) ==
    IF b > 0 THEN a \div b ELSE (-a) \div (-b)

Min(a, b) ==
    IF a < b THEN a ELSE b

Max(a, b) ==
    IF a > b THEN a ELSE b

RECURSIVE Pow(_, _)
Pow(b, k) ==
    IF k = 0 THEN 1 ELSE b * Pow(b, k - 1)

-----------------------------------------------------------------------------
(* JavaScript strings *)

\* the characters \s matches among those of the inputs
WhiteSpace ==
    {" ", "\t", "\n", "\r"}

DigitChars ==
    <<"0", "1", "2", "3", "4", "5", "6", "7", "8", "9">>

DigitVal(c) ==
    (CHOOSE i \in 1..10 : DigitChars[i] = c) - 1

\* what indexing past the end of an array yields; as a string it reads
\* "undefined", which no parser takes for a number
Undefined ==
    <<"undefined">>

\* arr[i] of a JavaScript array, i counted from 0
At(arr, i) ==
    IF i >= 0 /\ i < Len(arr) THEN arr[i + 1] ELSE Undefined

Drop(s, k) ==
    SubSeq(s, k + 1, Len(s))

\* the least element of a non-empty set of integers
Least(S) ==
    CHOOSE x \in S : \A y \in S : x <= y

RECURSIVE SortedSeq(_)
\* the elements of a finite set of integers in ascending order
SortedSeq(S) ==
    IF S = {} THEN <<>> ELSE <<Least(S)>> \o SortedSeq(S \ {Least(S)})

\* the number of leading characters of s that lie in cs
RunLength(s, cs) ==
    Least({i \in 0..Len(s) : i = Len(s) \/ s[i + 1] \notin cs})

\* the number of trailing characters of s that lie in cs
RunLengthEnd(s, cs) ==
    Least({i \in 0..Len(s) : i = Len(s) \/ s[Len(s) - i] \notin cs})

TrimStart(s) ==
    Drop(s, RunLength(s, WhiteSpace))

TrimEnd(s) ==
    SubSeq(s, 1, Len(s) - RunLengthEnd(s, WhiteSpace))

\* String.prototype.trim
Trim(s) ==
    TrimEnd(TrimStart(s))

\* s.split(/\r?\n/): the pieces between line feeds, a carriage return right
\* before a line feed belonging to the separator; the empty string splits
\* into one empty line
SplitLines(s) ==
    LET feeds  == SortedSeq({i \in 1..Len(s) : s[i] = "\n"})
        k      == Len(feeds)
        from(j) == IF j = 1 THEN 1 ELSE feeds[j - 1] + 1
        upto(j) == IF j > k THEN Len(s)
                   ELSE IF feeds[j] - 1 >= from(j) /\ s[feeds[j] - 1] = "\r"
                   THEN feeds[j] - 2
                   ELSE feeds[j] - 1
    IN  [j \in 1..(k + 1) |-> SubSeq(s, from(j), upto(j))]

\* s.split(/[seps]+/): fields between maximal runs of separators; a leading
\* or trailing run leaves an empty field, the empty string one empty field
SplitRuns(s, seps) ==
    LET starts == SortedSeq({i \in 1..Len(s) :
                      s[i] \notin seps /\ (i = 1 \/ s[i - 1] \in seps)})
        stop(i) == Least({j \in i..Len(s) : j = Len(s) \/ s[j + 1] \in seps})
        body   == [j \in 1..Len(starts) |-> SubSeq(s, starts[j], stop(starts[j]))]
    IN  IF s = <<>> THEN <<<<>>>>
        ELSE (IF s[1] \in seps THEN <<<<>>>> ELSE <<>>)
             \o body
             \o (IF s[Len(s)] \in seps THEN <<<<>>>> ELSE <<>>)

DigitSet ==
    {DigitChars[i] : i \in 1..10}

\* the longest run of digits s starts with
DigitPrefix(s) ==
    SubSeq(s, 1, RunLength(s, DigitSet))

RECURSIVE DigitsValue(_)
DigitsValue(ds) ==
    IF ds = <<>> THEN 0
    ELSE 10 * DigitsValue(SubSeq(ds, 1, Len(ds) - 1)) + DigitVal(ds[Len(ds)])

HasSign(s) ==
    s # <<>> /\ Head(s) \in {"+", "-"}

SignOf(s) ==
    IF s # <<>> /\ Head(s) = "-" THEN -1 ELSE 1

\* parseInt(s), radix 10: leading white space, a sign, the longest run of
\* digits; NaN without a digit (the inputs hold no 0x prefix)
ParseInt(s) ==
    LET t  == TrimStart(s)
        b  == IF HasSign(t) THEN Tail(t) ELSE t
        ds == DigitPrefix(b)
    IN  IF ds = <<>> THEN NaN ELSE <<SignOf(t) * DigitsValue(ds), 1>>

\* the longest prefix of b that is a decimal literal digits[.digits] or
\* .digits, as <<value, length>>; length 0 when there is none
DecimalPrefix(b) ==
    LET ip   == DigitPrefix(b)
        r    == Drop(b, Len(ip))
        dot  == r # <<>> /\ Head(r) = "."
        fp   == IF dot THEN DigitPrefix(Tail(r)) ELSE <<>>
        used == Len(ip) + (IF dot /\ (ip # <<>> \/ fp # <<>>) THEN 1 + Len(fp) ELSE 0)
    IN  IF ip = <<>> /\ fp = <<>> THEN <<NaN, 0>>
        ELSE <<Rat(DigitsValue(ip) * Pow(10, Len(fp)) + DigitsValue(fp),
                   Pow(10, Len(fp))), used>>

Negate(x) ==
    <<-x[1], x[2]>>

\* parseFloat(s): leading white space, a sign, the longest decimal literal
\* (the inputs hold no exponent part and no "Infinity")
ParseFloat(s) ==
    LET t == TrimStart(s)
        b == IF HasSign(t) THEN Tail(t) ELSE t
        v == DecimalPrefix(b)[1]
    IN  IF IsNaN(v) THEN NaN ELSE IF SignOf(t) < 0 THEN Negate(v) ELSE v

\* Number(s): the whole trimmed string must be a decimal literal; the empty
\* string is 0
ToNumber(s) ==
    LET t == Trim(s)
        b == IF HasSign(t) THEN Tail(t) ELSE t
        p == DecimalPrefix(b)
    IN  IF t = <<>> THEN <<0, 1>>
        ELSE IF p[2] = 0 \/ p[2] # Len(b) THEN NaN
        ELSE IF SignOf(t) < 0 THEN Negate(p[1]) ELSE p[1]

\* the least index >= from (counted from 1) at which c stands in s, else 0
IndexOf(s, c, from) ==
    LET hits == {i \in from..Len(s) : s[i] = c}
    IN  IF hits = {} THEN 0 ELSE Least(hits)

\* s.split('/')[0]
BeforeSlash(s) ==
    LET i == IndexOf(s, "/", 1)
    IN  IF i = 0 THEN s ELSE SubSeq(s, 1, i - 1)

\* s.replace(/\(.*?\)/, ''): the first "(" up to the nearest ")" after it
RemoveParen(s) ==
    LET i == IndexOf(s, "(", 1)
        j == IF i = 0 THEN 0 ELSE IndexOf(s, ")", i + 1)
    IN  IF j = 0 THEN s ELSE SubSeq(s, 1, i - 1) \o Drop(s, j)

\* whether /\((-?\d+)\)/ matches at the start of s, and the captured integer
BaselineAt(s) ==
    LET r1  == Tail(s)
        neg == r1 # <<>> /\ Head(r1) = "-"
        r2  == IF neg THEN Tail(r1) ELSE r1
        ds  == DigitPrefix(r2)
        r3  == Drop(r2, Len(ds))
    IN  IF s # <<>> /\ Head(s) = "(" /\ ds # <<>> /\ r3 # <<>> /\ Head(r3) = ")"
        THEN <<TRUE, (IF neg THEN -1 ELSE 1) * DigitsValue(ds)>>
        ELSE <<FALSE, 0>>

\* s.match(/\((-?\d+)\)/): the leftmost match, as <<matched, parseInt(group 1)>>
BaselineMatch(s) ==
    LET hits == {i \in 1..Len(s) : BaselineAt(Drop(s, i - 1))[1]}
    IN  IF hits = {} THEN <<FALSE, 0>> ELSE BaselineAt(Drop(s, Least(hits) - 1))

RECURSIVE DigitsOf(_)
\* the decimal digits of n >= 0, as template literals print them
DigitsOf(n) ==
    IF n < 10 THEN <<DigitChars[n + 1]>>
    ELSE DigitsOf(n \div 10) \o <<DigitChars[(n % 10) + 1]>>

-----------------------------------------------------------------------------
(* parseHea *)

\* .filter(l => l.trim() && !l.trim().startsWith('#'))
KeepLine(l) ==
    Trim(l) # <<>> /\ Head(Trim(l)) # "#"

\* lines of the header that survive the filter
HeaLines(text) ==
    SelectSeq(SplitLines(Trim(text)), KeepLine)

\* line.trim().split(/\s+/)
Fields(line) ==
    SplitRuns(Trim(line), WhiteSpace)

DefaultGain ==
    200

DefaultLeads ==
    1

DefaultRate ==
    360

\* the parser reading the gain from p[1], the field before it
GainFieldOffByOne(p) ==
    IF At(p, 1) = Undefined \/ At(p, 1) = <<>>
    THEN DigitsOf(DefaultGain)
    ELSE At(p, 1)

\* p[2] || '200'
GainField(p) ==
    IF At(p, 2) = Undefined \/ At(p, 2) = <<>>
    THEN DigitsOf(DefaultGain)
    ELSE At(p, 2)

\* parseFloat(gainRaw) || 200
GainOf(line) ==
    OrElse(ParseFloat(RemoveParen(BeforeSlash(GainField(Fields(line))))),
           <<DefaultGain, 1>>)

\* baseMatch ? parseInt(baseMatch[1]) : 0
BaselineOf(line) ==
    LET m == BaselineMatch(GainField(Fields(line)))
    IN  IF m[1] THEN m[2] ELSE 0

\* p[p.length - 1] || `Lead${i}`
LeadNameOf(line, i) ==
    LET p    == Fields(line)
        last == At(p, Len(p) - 1)
    IN  IF last = Undefined \/ last = <<>>
        THEN <<"L", "e", "a", "d">> \o DigitsOf(i)
        ELSE last

\* parseInt(header[1]) || 1
LeadCountOf(header) ==
    OrElse(ParseInt(At(header, 1)), <<DefaultLeads, 1>>)[1]

\* parseFloat(header[2]) || 360
RateOf(header) ==
    OrElse(ParseFloat(At(header, 2)), <<DefaultRate, 1>>)

\* parseInt(header[3]) || 0
SampleCountOf(header) ==
    OrElse(ParseInt(At(header, 3)), <<0, 1>>)[1]

\* the number of turns of the loop "for (i = 1; i <= nLeads && i < lines.length; i++)"
LeadLoopCount(nLeads, nLines) ==
    Max(0, Min(nLeads, nLines - 1))

NoMeta ==
    [fs |-> NaN, nSamples |-> 0, nLeads |-> 0,
     leadNames |-> <<>>, gains |-> <<>>, baselines |-> <<>>]

\* parseHea(text): err is "none", or "TypeError" when lines[0] is undefined
\* and lines[0].trim() throws
parseHea(text) ==
    LET lines  == HeaLines(text)
        header == Fields(lines[1])
        nLeads == LeadCountOf(header)
        k      == LeadLoopCount(nLeads, Len(lines))
    IN  IF lines = <<>>
        THEN [err |-> "TypeError", meta |-> NoMeta]
        ELSE [err |-> "none",
              meta |-> [fs        |-> RateOf(header),
                        nSamples  |-> SampleCountOf(header),
                        nLeads    |-> nLeads,
                        leadNames |-> [i \in 1..k |-> LeadNameOf(lines[i + 1], i)],
                        gains     |-> [i \in 1..k |-> GainOf(lines[i + 1])],
                        baselines |-> [i \in 1..k |-> BaselineOf(lines[i + 1])]]]

-----------------------------------------------------------------------------
(* Single-precision values: what a Float32Array element holds *)

\* bits of a single-precision significand
MantissaBits ==
    24

RECURSIVE Dyadic(_, _)
\* m * 2^(-e) in normal form: m odd, or <<0, 0>> for zero
Dyadic(m, e) ==
    IF m = 0 THEN <<0, 0>>
    ELSE IF m % 2 = 0 THEN Dyadic(m \div 2, e - 1)
    ELSE <<m, e>>

RECURSIVE Log2(_)
\* the exponent k of q = 2^k
Log2(q) ==
    IF q <= 1 THEN 0 ELSE 1 + Log2(q \div 2)

IsPow2(q) ==
    q >= 1 /\ Pow(2, Log2(q)) = q

RECURSIVE ScaleUp(_, _, _, _, _)
\* binary long division of a by q, one quotient bit a turn: m is the integer
\* part of a * 2^e / q and r the remainder, until m has MantissaBits bits
ScaleUp(m, r, q, e, lim) ==
    IF m >= lim THEN <<m, r, e>>
    ELSE IF 2 * r >= q
    THEN ScaleUp(2 * m + 1, 2 * r - q, q, e + 1, lim)
    ELSE ScaleUp(2 * m, 2 * r, q, e + 1, lim)

SingleNaN ==
    <<0, 1>>

SingleInf(sgn) ==
    IF sgn > 0 THEN <<0, 2>> ELSE <<0, 3>>

IsFiniteSingle(v) ==
    v[1] # 0 \/ v = <<0, 0>>

\* the single-precision value nearest to the number x (ties to even), as a
\* Float32Array store rounds it; a finite x lies in the normal range
fround(x) ==
    LET a    == Abs(x[1])
        q    == x[2]
        sgn  == IF x[1] < 0 THEN -1 ELSE 1
        lim  == Pow(2, MantissaBits - 1)
        ip   == a \div q
        k    == Least({j \in 0..8 : ip \div Pow(2, j) < 2 * lim})
        up   == ScaleUp(ip, a % q, q, 0, lim)
        upM  == IF 2 * up[2] > q \/ (2 * up[2] = q /\ up[1] % 2 = 1)
                THEN up[1] + 1 ELSE up[1]
        dnM  == ip \div Pow(2, k)
        low  == 2 * (ip % Pow(2, k))
        half == Pow(2, k)
        dnUp == low > half \/ (low = half /\ (a % q > 0 \/ dnM % 2 = 1))
    IN  IF IsNaN(x) THEN SingleNaN
        ELSE IF ~IsFinite(x) THEN SingleInf(x[1])
        ELSE IF x[1] = 0 THEN <<0, 0>>
        ELSE IF k = 0 THEN Dyadic(sgn * upM, up[3])
        ELSE Dyadic(sgn * (IF dnUp THEN dnM + 1 ELSE dnM), -k)

\* whether the single-precision value v is the finite number x
SameValue(v, x) ==
    /\ IsFinite(x)
    /\ IsPow2(x[2])
    /\ v = Dyadic(x[1], Log2(x[2]))

-----------------------------------------------------------------------------
(* parseDat *)

\* the decoder with the byte order of view.getInt16(off) without "true"
GetInt16BigEndian(buffer, off) ==
    LET u == 256 * buffer[off + 1] + buffer[off + 2]
    IN  IF u >= 32768 THEN u - 65536 ELSE u

\* view.getInt16(off, true): signed, little-endian, off counted from 0
GetInt16(buffer, off) ==
    LET u == buffer[off + 1] + 256 * buffer[off + 2]
    IN  IF u >= 32768 THEN u - 65536 ELSE u

\* baselines[ch] || 0, ch counted from 0
BaselineUsed(meta, ch) ==
    IF ch < Len(meta.baselines) THEN meta.baselines[ch + 1] ELSE 0

\* the decoder dividing by gains[ch] as it stands, without "|| 200"
GainUsedUnguarded(meta, ch) ==
    IF ch < Len(meta.gains) THEN meta.gains[ch + 1] ELSE <<0, 1>>

\* gains[ch] || 200, ch counted from 0
GainUsed(meta, ch) ==
    IF ch < Len(meta.gains)
    THEN OrElse(meta.gains[ch + 1], <<DefaultGain, 1>>)
    ELSE <<DefaultGain, 1>>

\* (raw - (baselines[ch] || 0)) / (gains[ch] || 200)
Calibrated(raw, meta, ch) ==
    LET g == GainUsed(meta, ch)
    IN  Rat((raw - BaselineUsed(meta, ch)) * g[2], g[1])

\* the sample count with a trailing partial frame counted as a sample
EffectiveSamplesRoundedUp(totalBytes, nLeads, nSamplesHdr) ==
    FloorDiv(totalBytes + nLeads * 2 - 1, nLeads * 2)

\* the decoder trusting the file size alone, without the header's count
EffectiveSamplesBySize(totalBytes, nLeads, nSamplesHdr) ==
    FloorDiv(totalBytes, nLeads * 2)

\* Math.min / Math.floor of the sample count
EffectiveSamples(totalBytes, nLeads, nSamplesHdr) ==
    IF nSamplesHdr > 0
    THEN Min(nSamplesHdr, FloorDiv(totalBytes, nLeads * 2))
    ELSE FloorDiv(totalBytes, nLeads * 2)

\* byte offset of sample s of channel ch, both counted from 0
SampleOffset(s, ch, nLeads) ==
    s * (nLeads * 2) + ch * 2

\* traces[ch][s] when the loops end: an element keeps its initial 0 if the
\* guard "off + 2 > totalBytes" broke the frame's loop at or before ch
TraceValue(buffer, meta, ch, s) ==
    IF \E c \in 0..ch : SampleOffset(s, c, meta.nLeads) + 2 > Len(buffer)
    THEN <<0, 0>>
    ELSE fround(Calibrated(GetInt16(buffer, SampleOffset(s, ch, meta.nLeads)), meta, ch))

ErrNoLeads ==
    "nLeads is 0"

ErrNoSamples ==
    "No samples decoded"

\* the decoder without the check "if (nSamples === 0) throw"
parseDatUnchecked(buffer, meta) ==
    LET nLeads   == meta.nLeads
        nSamples == EffectiveSamples(Len(buffer), nLeads, meta.nSamples)
    IN  IF nLeads * 2 = 0 THEN [err |-> ErrNoLeads, traces |-> <<>>]
        ELSE [err |-> "none",
              traces |-> [ch \in 1..nLeads |->
                            [s \in 1..nSamples |-> TraceValue(buffer, meta, ch - 1, s - 1)]]]

\* parseDat(buffer, meta): err is "none" or the message of the Error thrown
parseDat(buffer, meta) ==
    LET nLeads   == meta.nLeads
        nSamples == EffectiveSamples(Len(buffer), nLeads, meta.nSamples)
    IN  IF nLeads * 2 = 0 THEN [err |-> ErrNoLeads, traces |-> <<>>]
        ELSE IF nSamples = 0 THEN [err |-> ErrNoSamples, traces |-> <<>>]
        ELSE [err |-> "none",
              traces |-> [ch \in 1..nLeads |->
                            [s \in 1..nSamples |-> TraceValue(buffer, meta, ch - 1, s - 1)]]]

-----------------------------------------------------------------------------
(* parseXyz *)

\* text.trim().split(/\r?\n/).map(r => r.trim().split(/[\s,]+/).map(Number))
XyzRows(text) ==
    LET ls == SplitLines(Trim(text))
        fs(j) == SplitRuns(Trim(ls[j]), WhiteSpace \cup {","})
    IN  [j \in 1..Len(ls) |-> [k \in 1..Len(fs(j)) |-> ToNumber(fs(j)[k])]]

\* what rows.forEach(row => row.forEach((v, i) => { if (i < nLeads) traces[i].push(v) }))
\* leaves in traces[i - 1]: the i-th value of every row that has one, in row order
XyzColumn(rows, i) ==
    LET js == SortedSeq({j \in 1..Len(rows) : Len(rows[j]) >= i})
    IN  [k \in 1..Len(js) |-> rows[js[k]][i]]

\* parseXyz(text)
parseXyz(text) ==
    LET rows == XyzRows(text)
    IN  IF Len(rows) = 0 THEN <<>>
        ELSE [i \in 1..Len(rows[1]) |-> XyzColumn(rows, i)]

-----------------------------------------------------------------------------
(* _applySignals and the handlers of the WFDB panel *)

\* COLORS.length
NumColors ==
    15

\* keys.map((key, index) => ({ id, label, visible, color, thickness }));
\* color is the index into COLORS, thickness the number 1.5
NewChannels(keys) ==
    [i \in 1..Len(keys) |->
        [id |-> i - 1, label |-> keys[i], visible |-> TRUE,
         color |-> (i - 1) % NumColors, thickness |-> <<3, 2>>]]

\* Math.min(Math.max(500, Math.floor(firstTrace.length * 0.1)), 3000)
SampleCountFor(len) ==
    Min(Max(500, len \div 10), 3000)

\* traces[0]?.length || 0
FirstLength(traces) ==
    IF Len(traces) = 0 THEN 0 ELSE Len(traces[1])

\* Array.from({ length: n }, (_, i) => i / heaMeta.fs)
TimeAxis(n, fs) ==
    [i \in 1..n |-> Rat((i - 1) * fs[2], fs[1])]

NoGraph ==
    [set |-> FALSE, time |-> <<>>, traces |-> <<>>]

InitPair ==
    [chA |-> 0, chB |-> 1, sampleCount |-> 1000, allSamples |-> FALSE]

\* _applySignals(keys, traces, time)
applySignals(keys, traces, time) ==
    /\ channels' = NewChannels(keys)
    /\ pairSel' = [chA |-> 0, chB |-> Min(1, Len(keys) - 1),
                   sampleCount |-> SampleCountFor(FirstLength(traces)),
                   allSamples |-> FALSE]
    /\ graphData' = [set |-> TRUE, time |-> time, traces |-> traces]

\* nothing plotted yet, no statistics computed yet
NoPlot ==
    [kind |-> "none"]

NoStats ==
    [kind |-> "none"]

\* useState(64) of chunkSize
InitChunkSize ==
    64

\* useState(360) of periodicity
InitPeriodicity ==
    360

\* the viewer's initial state (useState)
IdleView ==
    /\ viewerMode = "Continuous"
    /\ chunkSize = InitChunkSize
    /\ periodicity = InitPeriodicity
    /\ plot = NoPlot
    /\ stats = NoStats

\* useState(null) of datFileRef
NoFile ==
    [kept |-> FALSE, bytes |-> <<>>]

\* useState(null) of aiReport and mlReport
NoReports ==
    [set |-> FALSE, of |-> ""]

\* the session's initial state (useState)
IdleSess ==
    /\ signalType = "ecg"
    /\ fileFormat = "csv"
    /\ reports = NoReports
    /\ requests = <<>>

\* the session once the user has picked the WFDB format for an ECG
WfdbSess ==
    /\ signalType = "ecg"
    /\ fileFormat = "wfdb"
    /\ reports = NoReports
    /\ requests = <<>>

\* useState(300) of windowSize
InitWindowSize ==
    300

\* nothing handed to Plotly.relayout yet
NoRelayout ==
    [set |-> FALSE, range |-> <<>>, panels |-> {}, overlay |-> FALSE]

\* playback's initial state (useState, useRef)
IdlePlay ==
    /\ playing = FALSE
    /\ speed = <<1, 1>>
    /\ windowSize = InitWindowSize
    /\ playIndex = <<0, 1>>
    /\ stoppedIndex = <<0, 1>>
    /\ displayMode = "Multi-Panel"
    /\ timers = <<>>
    /\ relayout = NoRelayout

\* what the callback handed to setInterval closes over: totalPoints and
\* wsize, and speed, channels and displayMode of the render that ran the effect
Closure ==
    [totalPoints |-> Len(graphData.time), wsize |-> windowSize,
     speed |-> speed, channels |-> channels, displayMode |-> displayMode]

\* the effect leaving the previous interval set
ClearedNothing(ts) ==
    ts

\* clearInterval(playIntervalRef.current): the interval the ref holds is the
\* one set last
Cleared(ts) ==
    IF ts = <<>> THEN <<>> ELSE SubSeq(ts, 1, Len(ts) - 1)

\* the playback effect on [playing, speed, graphData, windowSize]: the
\* previous run's cleanup, then this run's body, whose else branch clears
\* the interval the cleanup has cleared already
PlaybackEffect ==
    timers' = IF playing' /\ graphData'.set
              THEN Append(Cleared(timers), Closure')
              ELSE Cleared(timers)

-----------------------------------------------------------------------------
(* Header texts handed to parseHea *)

\* "rec 2 360 1000": record line of the worked example: 2 leads, 360 Hz, 1000 samples
FirstExample ==
    <<"r", "e", "c", " ", "2", " ", "3", "6", "0", " ", "1", "0", "0", "0">>

\* "rec 1 250": one lead, no sample count
FirstOneLead ==
    <<"r", "e", "c", " ", "1", " ", "2", "5", "0">>

\* "rec 3 360 2": three leads, two samples declared
FirstThreeLeads ==
    <<"r", "e", "c", " ", "3", " ", "3", "6", "0", " ", "2">>

\* "rec 0 360 10": zero leads declared
FirstZeroLeads ==
    <<"r", "e", "c", " ", "0", " ", "3", "6", "0", " ", "1", "0">>

\* "rec -2 360": a negative lead count
FirstNegLeads ==
    <<"r", "e", "c", " ", "-", "2", " ", "3", "6", "0">>

\* "rec": the record name alone: every numeric field is missing
FirstNameOnly ==
    <<"r", "e", "c">>

\* "rec x y": fields present but not numeric
FirstNonNumeric ==
    <<"r", "e", "c", " ", "x", " ", "y">>

\* "  rec 2 0 0": indented; rate 0 and sample count 0
FirstZeroRate ==
    <<" ", " ", "r", "e", "c", " ", "2", " ", "0", " ", "0">>

\* "rec 2 0.5 -1": a fractional rate and a negative sample count
FirstNegSamples ==
    <<"r", "e", "c", " ", "2", " ", "0", ".", "5", " ", "-", "1">>

\* "rec.dat 16 200(0)/mV 0 0 MLII": signal line of the worked example, gain with baseline
ChanMLII ==
    <<"r", "e", "c", ".", "d", "a", "t", " ", "1", "6", " ", "2", "0", "0",
      "(", "0", ")", "/", "m", "V", " ", "0", " ", "0", " ", "M", "L", "I",
      "I">>

\* "rec.dat 16 200/mV 0 0 V5": signal line of the worked example, gain without baseline
ChanV5 ==
    <<"r", "e", "c", ".", "d", "a", "t", " ", "1", "6", " ", "2", "0", "0",
      "/", "m", "V", " ", "0", " ", "0", " ", "V", "5">>

\* "rec.dat 16 0/mV 0 0 V1": gain 0
ChanZeroGain ==
    <<"r", "e", "c", ".", "d", "a", "t", " ", "1", "6", " ", "0", "/", "m",
      "V", " ", "0", " ", "0", " ", "V", "1">>

\* "rec.dat 16 (7)/mV 0 0 V2": no gain number, baseline 7, a tab between fields
ChanNoNumber ==
    <<"r", "e", "c", ".", "d", "a", "t", " ", "1", "6", " ", "(", "7", ")",
      "/", "m", "V", "\t", "0", " ", "0", " ", "V", "2">>

\* "rec.dat 16": no gain field: the last token is the format
ChanShort ==
    <<"r", "e", "c", ".", "d", "a", "t", " ", "1", "6">>

\* "rec.dat 16 3(-1)/mV V3": gain 3, baseline -1
ChanBaseline ==
    <<"r", "e", "c", ".", "d", "a", "t", " ", "1", "6", " ", "3", "(", "-",
      "1", ")", "/", "m", "V", " ", "V", "3">>

\* "rec.dat 16 -5/mV 0 0 V4": a negative gain
ChanNegGain ==
    <<"r", "e", "c", ".", "d", "a", "t", " ", "1", "6", " ", "-", "5", "/",
      "m", "V", " ", "0", " ", "0", " ", "V", "4">>

\* "rec.dat 16 0.5(100) 0 0 V6": a fractional gain, no unit
ChanFraction ==
    <<"r", "e", "c", ".", "d", "a", "t", " ", "1", "6", " ", "0", ".", "5",
      "(", "1", "0", "0", ")", " ", "0", " ", "0", " ", "V", "6">>

\* "rec.dat 16 /mV(2) aVR": nothing before the slash, a baseline after it
ChanUnitOnly ==
    <<"r", "e", "c", ".", "d", "a", "t", " ", "1", "6", " ", "/", "m", "V",
      "(", "2", ")", " ", "a", "V", "R">>

\* "# note": a comment line
CommentLine ==
    <<"#", " ", "n", "o", "t", "e">>

\* "rec 1 360 2": one lead, two samples declared
FirstTwoSamples ==
    <<"r", "e", "c", " ", "1", " ", "3", "6", "0", " ", "2">>

FirstLines ==
    {FirstExample, FirstOneLead, FirstThreeLeads, FirstZeroLeads, FirstNegLeads,
     FirstNameOnly, FirstNonNumeric, FirstZeroRate, FirstNegSamples,
     FirstTwoSamples}

ChanLines ==
    {ChanMLII, ChanV5, ChanZeroGain, ChanNoNumber, ChanShort, ChanBaseline,
     ChanNegGain, ChanFraction, ChanUnitOnly}

\* the most signal lines a generated header text holds
MaxChanLines ==
    2

SeqsUpTo(S, n) ==
    UNION {[1..k -> S] : k \in 0..n}

RECURSIVE JoinLines(_, _)
\* the lines, each followed by the line terminator eol
JoinLines(ls, eol) ==
    IF ls = <<>> THEN <<>> ELSE Head(ls) \o eol \o JoinLines(Tail(ls), eol)

\* the worked example written with CRLF line ends, comments and a blank line
ExampleCrLf ==
    JoinLines(<<CommentLine, FirstExample, <<>>, ChanMLII, <<" ", " ">>,
                CommentLine, ChanV5>>, <<"\r", "\n">>)

\* texts without any record line: empty, blank, comments only
EmptyTexts ==
    {<<>>, <<" ", "\n", "\n">>, CommentLine, JoinLines(<<CommentLine, CommentLine>>, <<"\n">>)}

HeaTexts ==
    {JoinLines(<<f>> \o cs, <<"\n">>) : f \in FirstLines, cs \in SeqsUpTo(ChanLines, MaxChanLines)}
        \cup EmptyTexts \cup {ExampleCrLf}

-----------------------------------------------------------------------------
(* parseHea applied to a header text *)

NotRun ==
    [err |-> "not run", meta |-> NoMeta]

IdleHea ==
    heaText = <<>> /\ heaOut = NotRun

InitHea ==
    /\ heaText \in HeaTexts
    /\ heaOut = NotRun

RunParseHea ==
    /\ heaOut = NotRun
    /\ heaOut' = parseHea(heaText)
    /\ UNCHANGED <<heaText, datBuf, datMeta, datOut, xyzText, xyzOut, panelVars, viewVars, sessVars, playVars>>

NextHea ==
    RunParseHea

-----------------------------------------------------------------------------
(* parseDat applied to a byte buffer and a metadata record *)

\* the three frames [100,-100], [200,-200], [300,-300] of the worked example
ExampleBuf ==
    <<100, 0, 156, 255, 200, 0, 56, 255, 44, 1, 212, 254>>

\* byte values of the generated buffers: as 16-bit words they read 257,
\* -255 (little-endian 1, 255), 511 and -1
ByteVals ==
    {1, 255}

\* the most bytes a generated buffer holds
MaxBufLen ==
    6

Buffers ==
    SeqsUpTo(ByteVals, MaxBufLen) \cup {ExampleBuf}

ExampleText ==
    JoinLines(<<FirstExample, ChanMLII, ChanV5>>, <<"\n">>)

DatFirstLines ==
    {FirstExample, FirstTwoSamples, FirstThreeLeads, FirstZeroLeads,
     FirstNegLeads, FirstNameOnly, FirstNegSamples}

DatChanLines ==
    {ChanMLII, ChanZeroGain, ChanBaseline, ChanFraction}

\* header texts whose metadata is handed on to parseDat
DatHeaTexts ==
    {JoinLines(<<f>> \o cs, <<"\n">>) :
        f \in DatFirstLines, cs \in SeqsUpTo(DatChanLines, MaxChanLines)}
        \cup {ExampleText}

\* metadata no header text yields: zero leads, and a gain of 0
ZeroLeadsMeta ==
    [fs |-> <<360, 1>>, nSamples |-> 0, nLeads |-> 0,
     leadNames |-> <<>>, gains |-> <<>>, baselines |-> <<>>]

ZeroGainMeta ==
    [fs |-> <<360, 1>>, nSamples |-> 0, nLeads |-> 2,
     leadNames |-> <<<<"a">>, <<"b">>>>, gains |-> <<<<0, 1>>, <<3, 1>>>>,
     baselines |-> <<1, 0>>]

Metas ==
    {parseHea(t).meta : t \in DatHeaTexts} \cup {ZeroLeadsMeta, ZeroGainMeta}

DatNotRun ==
    [err |-> "not run", traces |-> <<>>]

InitDat ==
    /\ datBuf \in Buffers
    /\ datMeta \in Metas
    /\ datOut = DatNotRun

RunParseDat ==
    /\ datOut = DatNotRun
    /\ datOut' = parseDat(datBuf, datMeta)
    /\ UNCHANGED <<heaText, heaOut, datBuf, datMeta, xyzText, xyzOut, panelVars, viewVars, sessVars, playVars>>

NextDat ==
    RunParseDat

-----------------------------------------------------------------------------
(* parseXyz applied to a text *)

\* rows of delimited text: "1 2", "3,4", "5", "6 7 8", "", "1.5, -2", "x 1", ",9"
XyzRowTexts ==
    {<<"1", " ", "2">>, <<"3", ",", "4">>, <<"5">>, <<"6", " ", "7", " ", "8">>,
     <<>>, <<"1", ".", "5", ",", " ", "-", "2">>, <<"x", " ", "1">>, <<",", "9">>}

\* the most rows a generated text holds
MaxXyzRows ==
    3

XyzTexts ==
    {JoinLines(rs, <<"\n">>) : rs \in SeqsUpTo(XyzRowTexts, MaxXyzRows)}
        \cup {JoinLines(<<<<"1", " ", "2">>, <<>>, <<"3", ",", "4">>>>, <<"\r", "\n">>)}

XyzNotRun ==
    <<<<NaN>>, <<NaN>>, <<NaN>>, <<NaN>>, <<NaN>>>>

InitXyz ==
    /\ xyzText \in XyzTexts
    /\ xyzOut = XyzNotRun

RunParseXyz ==
    /\ xyzOut = XyzNotRun
    /\ xyzOut' = parseXyz(xyzText)
    /\ UNCHANGED <<heaText, heaOut, datBuf, datMeta, datOut, xyzText, panelVars, viewVars, sessVars, playVars>>

NextXyz ==
    RunParseXyz

-----------------------------------------------------------------------------
(* The WFDB panel: a .hea file and a .dat file are dropped on it *)

\* the most bytes a dropped .dat file holds
MaxFileLen ==
    4

DatFiles ==
    SeqsUpTo(ByteVals, MaxFileLen) \cup {ExampleBuf}

\* the header texts above and an empty .hea file
HeaFiles ==
    DatHeaTexts \cup {<<>>}

NoAlert ==
    [from |-> "", message |-> ""]

IdleDat ==
    datBuf = <<>> /\ datMeta = NoMeta /\ datOut = DatNotRun

IdleXyz ==
    xyzText = <<>> /\ xyzOut = XyzNotRun

IdlePanel ==
    /\ heaFile = <<>>
    /\ datFile = <<>>
    /\ heaMeta = NoMeta
    /\ graphData = NoGraph
    /\ channels = <<>>
    /\ datFileRef = NoFile
    /\ pairSel = InitPair
    /\ loading = FALSE
    /\ alertMsg = NoAlert

\* the component's initial state (useState), heaMeta = NoMeta standing for
\* null, with the two files the user is about to drop
InitPanel ==
    /\ heaFile \in HeaFiles
    /\ datFile \in DatFiles
    /\ heaMeta = NoMeta
    /\ graphData = NoGraph
    /\ channels = <<>>
    /\ datFileRef = NoFile
    /\ pairSel = InitPair
    /\ loading = FALSE
    /\ alertMsg = NoAlert

\* the WFDB drop zones are rendered for the WFDB format of an ECG
WfdbZones ==
    fileFormat = "wfdb" /\ signalType = "ecg"

\* onFile of the .hea drop zone, handed a file of content text
HeaOnFileOf(text) ==
    LET r == parseHea(text)
    IN  /\ WfdbZones
        /\ IF r.err = "none"
           THEN heaMeta' = r.meta /\ UNCHANGED alertMsg
           ELSE alertMsg' = [from |-> ".hea", message |-> r.err] /\ UNCHANGED heaMeta
        /\ UNCHANGED <<heaFile, datFile, graphData, channels, datFileRef,
                       pairSel, loading, parseVars, viewVars, sessVars, playVars>>

\* onFile of the .hea drop zone
HeaOnFile ==
    HeaOnFileOf(heaFile)

\* onFile of the .dat drop zone; it returns at once while heaMeta is null
DatOnFileOf(bytes) ==
    LET r == parseDat(bytes, heaMeta)
    IN  /\ WfdbZones
        /\ heaMeta # NoMeta
        /\ datFileRef' = [kept |-> TRUE, bytes |-> bytes]
        /\ reports' = NoReports
        /\ loading' = FALSE
        /\ UNCHANGED <<playing, speed, windowSize, playIndex, stoppedIndex,
                       displayMode, relayout>>
        /\ IF r.err = "none"
           THEN /\ applySignals(heaMeta.leadNames, r.traces,
                                TimeAxis(FirstLength(r.traces), heaMeta.fs))
                /\ PlaybackEffect
                /\ UNCHANGED alertMsg
           ELSE /\ alertMsg' = [from |-> ".dat", message |-> r.err]
                /\ UNCHANGED <<graphData, channels, pairSel, timers>>
        /\ UNCHANGED <<heaFile, datFile, heaMeta, parseVars, viewVars>>
        /\ UNCHANGED <<signalType, fileFormat, requests>>

\* onFile of the .dat drop zone
DatOnFile ==
    DatOnFileOf(datFile)

Init ==
    IdleHea /\ IdleDat /\ IdleXyz /\ InitPanel /\ IdleView /\ WfdbSess /\ IdlePlay

Next ==
    HeaOnFile \/ DatOnFile

Spec ==
    Init /\ [][Next]_vars

StartHea ==
    InitHea /\ IdleDat /\ IdleXyz /\ IdlePanel /\ IdleView /\ IdleSess /\ IdlePlay

StartDat ==
    IdleHea /\ InitDat /\ IdleXyz /\ IdlePanel /\ IdleView /\ IdleSess /\ IdlePlay

StartXyz ==
    IdleHea /\ IdleDat /\ InitXyz /\ IdlePanel /\ IdleView /\ IdleSess /\ IdlePlay

SpecHea ==
    StartHea /\ [][NextHea]_vars

SpecDat ==
    StartDat /\ [][NextDat]_vars

SpecXyz ==
    StartXyz /\ [][NextXyz]_vars

-----------------------------------------------------------------------------
(* Comparing a single-precision value with a rational *)

RECURSIVE CmpFrac(_, _, _, _)
\* the sign of a/pw - b/q for 0 <= a < pw and 0 <= b < q, pw a power of two:
\* the binary expansions are compared bit by bit
CmpFrac(a, pw, b, q) ==
    IF a = 0 THEN (IF b = 0 THEN 0 ELSE -1)
    ELSE IF (2 * a >= pw) # (2 * b >= q) THEN (IF 2 * a >= pw THEN 1 ELSE -1)
    ELSE CmpFrac((2 * a) % pw, pw, (2 * b) % q, q)

\* the sign of m * 2^(-e) - p/q for m > 0, p > 0, q > 0
CmpMagnitude(m, e, p, q) ==
    LET pw == Pow(2, Abs(e))
        ia == IF e <= 0 THEN m * pw ELSE m \div pw
        fa == IF e <= 0 THEN 0 ELSE m % pw
    IN  IF ia # p \div q THEN Sign(ia - p \div q)
        ELSE CmpFrac(fa, IF e <= 0 THEN 1 ELSE pw, p % q, q)

\* the sign of v - x for a finite single-precision value v and a finite number x
CmpSingle(v, x) ==
    IF Sign(v[1]) # Sign(x[1]) THEN Sign(Sign(v[1]) - Sign(x[1]))
    ELSE IF v[1] = 0 THEN 0
    ELSE IF v[1] > 0 THEN CmpMagnitude(v[1], v[2], x[1], x[2])
    ELSE -CmpMagnitude(-v[1], v[2], -x[1], x[2])

-----------------------------------------------------------------------------
(* Claims about parseDat, checked under SpecDat *)

DatRan ==
    datOut # DatNotRun

DatOk ==
    datOut.err = "none"

\* the signed 16-bit integer whose little-endian bytes stand at byte offset
\* off (counted from 0) of the buffer: two's complement of low + 256 * high
WordAt(buf, off) ==
    buf[off + 1] + 256 * buf[off + 2] - (IF buf[off + 2] >= 128 THEN 65536 ELSE 0)

\* gain[ch] and baseline[ch] of the metadata, ch counted from 0, with the
\* defaults 200 and 0 where the metadata has none or has a gain of 0
GainGiven(meta, ch) ==
    IF ch + 1 \in DOMAIN meta.gains /\ meta.gains[ch + 1][1] # 0
    THEN meta.gains[ch + 1] ELSE <<200, 1>>

BaselineGiven(meta, ch) ==
    IF ch + 1 \in DOMAIN meta.baselines THEN meta.baselines[ch + 1] ELSE 0

\* (the integer at byte offset (s * channelCount + ch) * 2 - baseline[ch]) / gain[ch]
\* with the raw integer shifted by d codes
Quotient(buf, meta, ch, s, d) ==
    LET g == GainGiven(meta, ch)
    IN  Rat((WordAt(buf, (s * meta.nLeads + ch) * 2) + d - BaselineGiven(meta, ch)) * g[2],
            g[1])

\* the samples parseDat returned: <<ch, s>>, both counted from 0
DecodedSamples ==
    {cs \in (0..(Len(datOut.traces) - 1)) \X (0..(FirstLength(datOut.traces) - 1)) : TRUE}

ExampleMeta ==
    parseHea(ExampleText).meta

\* C1 as stated: every decoded sample equals the quotient
\* (int16 - baseline[ch]) / gain[ch] itself.
C1_ExactQuotient ==
    DatOk =>
        \A cs \in DecodedSamples :
            SameValue(datOut.traces[cs[1] + 1][cs[2] + 1],
                      Quotient(datBuf, datMeta, cs[1], cs[2], 0))

\* C1 as amended: every decoded sample is the quotient
\* (int16 - baseline[ch]) / gain[ch] rounded to single precision: it equals
\* the quotient whenever that is a single-precision value, it lies strictly
\* between the quotients of the two neighbouring raw codes (within 1/gain),
\* and the three frames of the example decode to [0.5, 1, 1.5] and
\* [-0.5, -1, -1.5].
C1_RoundedQuotient ==
    DatOk =>
        /\ Len(datOut.traces) = Max(0, datMeta.nLeads)
        /\ \A cs \in DecodedSamples :
            LET v  == datOut.traces[cs[1] + 1][cs[2] + 1]
                q  == Quotient(datBuf, datMeta, cs[1], cs[2], 0)
                lo == Quotient(datBuf, datMeta, cs[1], cs[2], -1)
                hi == Quotient(datBuf, datMeta, cs[1], cs[2], 1)
            IN  /\ v = fround(q)
                /\ IsFiniteSingle(v)
                /\ CmpSingle(v, q) = 0 <=> SameValue(v, q)
                /\ (IsPow2(q[2]) /\ Abs(q[1]) < Pow(2, MantissaBits)) => SameValue(v, q)
                /\ CmpSingle(v, lo) = -CmpSingle(v, hi)
                /\ CmpSingle(v, lo) # 0
        /\ (datBuf = ExampleBuf /\ datMeta = ExampleMeta) =>
               datOut.traces = << <<<<1, 1>>, <<1, 0>>, <<3, 1>>>>,
                                  <<<<-1, 1>>, <<-1, 0>>, <<-3, 1>>>> >>

\* a decoded sample whose quotient is no single-precision value, and the
\* decoded example
C1_Witness ==
    /\ DatOk
    /\ datBuf = <<255, 255, 1, 1>>
    /\ datMeta = ExampleMeta
    /\ ~SameValue(datOut.traces[1][1], Quotient(datBuf, datMeta, 0, 0, 0))

\* floor(byteLength / (2 * channelCount)) for channelCount >= 1: the number
\* of whole frames the buffer holds
WholeFrames(byteLength, channelCount) ==
    CHOOSE k \in 0..byteLength :
        /\ k * 2 * channelCount <= byteLength
        /\ (k + 1) * 2 * channelCount > byteLength

\* the effective sample count of the specification
ExpectedSamples(byteLength, channelCount, declared) ==
    IF declared > 0
    THEN (IF declared < WholeFrames(byteLength, channelCount)
          THEN declared ELSE WholeFrames(byteLength, channelCount))
    ELSE WholeFrames(byteLength, channelCount)

\* C2: for a channel count >= 1, parseDat returns one array per channel, each
\* of length min(declared, floor(byteLength / (2 * channelCount))) when the
\* declared sample count is > 0 and floor(byteLength / (2 * channelCount))
\* otherwise.
C2_ArrayLengths ==
    (DatOk /\ datMeta.nLeads >= 1) =>
        /\ Len(datOut.traces) = datMeta.nLeads
        /\ \A ch \in 1..datMeta.nLeads :
               Len(datOut.traces[ch]) =
                   ExpectedSamples(Len(datBuf), datMeta.nLeads, datMeta.nSamples)

\* a buffer of three frames decoded under a header that declares two samples
C2_Witness ==
    /\ DatOk
    /\ datMeta.nLeads = 1
    /\ datMeta.nSamples = 2
    /\ Len(datBuf) = 6
    /\ Len(datOut.traces[1]) = 2

\* the effective sample count as the decoder is specified to compute it, for
\* a channel count other than 0: Math.floor of the quotient, capped by a
\* positive declared count
ComputedSamples(byteLength, channelCount, declared) ==
    LET f == CHOOSE k \in (-byteLength)..byteLength :
                 IF channelCount > 0
                 THEN k * 2 * channelCount <= byteLength
                      /\ (k + 1) * 2 * channelCount > byteLength
                 ELSE k * 2 * channelCount >= byteLength
                      /\ (k + 1) * 2 * channelCount < byteLength
    IN  IF declared > 0 /\ declared < f THEN declared ELSE f

\* C7: parseDat fails with "No samples decoded" (EmptyRecording) exactly
\* when the channel count is not 0 and the effective sample count computed
\* from the byte length, the channel count and the declared sample count is
\* 0, and it then returns no channel arrays.
C7_EmptyRecording ==
    DatRan =>
        /\ (datOut.err = ErrNoSamples) <=>
               /\ datMeta.nLeads # 0
               /\ ComputedSamples(Len(datBuf), datMeta.nLeads, datMeta.nSamples) = 0
        /\ (datOut.err = ErrNoSamples) => datOut.traces = <<>>
        /\ (DatOk /\ datMeta.nLeads >= 1) =>
               \A ch \in 1..Len(datOut.traces) : Len(datOut.traces[ch]) >= 1

\* a buffer shorter than one frame of a two-lead header: no sample decoded
C7_Witness ==
    /\ datOut.err = ErrNoSamples
    /\ datMeta.nLeads = 2
    /\ Len(datBuf) = 3

\* gain[ch] is missing from the metadata or is zero (ch counted from 0)
GainMissingOrZero(meta, ch) ==
    ch + 1 \notin DOMAIN meta.gains \/ meta.gains[ch + 1][1] = 0

\* C9: parseDat never divides by a missing or zero gain: every decoded
\* sample is finite, and for a channel whose gain is missing or zero it is
\* (int16 - baseline[ch]) / 200 (as a single-precision value).
C9_DefaultGain ==
    DatOk =>
        \A cs \in DecodedSamples :
            LET v == datOut.traces[cs[1] + 1][cs[2] + 1]
                w == WordAt(datBuf, (cs[2] * datMeta.nLeads + cs[1]) * 2)
            IN  /\ IsFiniteSingle(v)
                /\ GainMissingOrZero(datMeta, cs[1]) =>
                       /\ v = fround(Rat(w - BaselineGiven(datMeta, cs[1]), 200))
                       /\ CmpSingle(v, Rat(w - 1 - BaselineGiven(datMeta, cs[1]), 200)) = 1
                       /\ CmpSingle(v, Rat(w + 1 - BaselineGiven(datMeta, cs[1]), 200)) = -1

\* a frame decoded with metadata whose first gain is 0
C9_Witness ==
    /\ DatOk
    /\ datMeta = ZeroGainMeta
    /\ Len(datBuf) = 4

-----------------------------------------------------------------------------
(* Claims about parseHea, checked under SpecHea *)

HeaRan ==
    heaOut # NotRun

HeaOk ==
    heaOut.err = "none"

\* the text up to its first line feed
FirstLineOf(text) ==
    SubSeq(text, 1, Least({i \in 1..(Len(text) + 1) : i > Len(text) \/ text[i] = "\n"}) - 1)

\* the number of lines after the first in a text whose lines each end in a
\* line feed
LinesAfterFirst(text) ==
    Cardinality({i \in 1..Len(text) : text[i] = "\n"}) - 1

\* the channel count each record line declares, read off the line by hand:
\* <<TRUE, count>>, or <<FALSE, 0>> where the line has no numeric count
DeclaredLeads(first) ==
    CASE first = FirstExample    -> <<TRUE, 2>>
      [] first = FirstOneLead    -> <<TRUE, 1>>
      [] first = FirstThreeLeads -> <<TRUE, 3>>
      [] first = FirstZeroLeads  -> <<TRUE, 0>>
      [] first = FirstNegLeads   -> <<TRUE, -2>>
      [] first = FirstZeroRate   -> <<TRUE, 2>>
      [] first = FirstNegSamples -> <<TRUE, 2>>
      [] first = FirstTwoSamples -> <<TRUE, 1>>
      [] OTHER                   -> <<FALSE, 0>>

\* the sample rate each record line declares, likewise
DeclaredRate(first) ==
    CASE first = FirstExample    -> <<TRUE, <<360, 1>>>>
      [] first = FirstOneLead    -> <<TRUE, <<250, 1>>>>
      [] first = FirstThreeLeads -> <<TRUE, <<360, 1>>>>
      [] first = FirstZeroLeads  -> <<TRUE, <<360, 1>>>>
      [] first = FirstNegLeads   -> <<TRUE, <<360, 1>>>>
      [] first = FirstZeroRate   -> <<TRUE, <<0, 1>>>>
      [] first = FirstNegSamples -> <<TRUE, <<1, 2>>>>
      [] first = FirstTwoSamples -> <<TRUE, <<360, 1>>>>
      [] OTHER                   -> <<FALSE, NaN>>

\* the declared channel count, 1 where the record line gives none
DeclaredOrOne(first) ==
    IF DeclaredLeads(first)[1] THEN DeclaredLeads(first)[2] ELSE 1

\* min(declared, available), never below 0
ClippedCount(declared, available) ==
    IF declared < 0 THEN 0
    ELSE IF declared < available THEN declared ELSE available

\* C3: for every header text parseHea accepts, the number of names, of gains
\* and of baselines equals min(declared channel count, number of lines after
\* the record line), and every gain is strictly greater than 0.
C3_RecordCounts ==
    (HeaOk /\ FirstLineOf(heaText) \in FirstLines) =>
        LET k == ClippedCount(DeclaredOrOne(FirstLineOf(heaText)),
                              LinesAfterFirst(heaText))
        IN  /\ Len(heaOut.meta.leadNames) = k
            /\ Len(heaOut.meta.gains) = k
            /\ Len(heaOut.meta.baselines) = k
            /\ \A i \in 1..Len(heaOut.meta.gains) :
                   /\ heaOut.meta.gains[i][1] > 0
                   /\ heaOut.meta.gains[i][2] > 0

MLII ==
    <<"M", "L", "I", "I">>

V5 ==
    <<"V", "5">>

\* what the rule of C4 derives from each signal line, worked out by hand:
\* <<gain, baseline, name>>; zeroGain is the gain of the line "0/mV"
DerivedBy(line, zeroGain) ==
    CASE line = ChanMLII     -> <<<<200, 1>>, 0, MLII>>
      [] line = ChanV5       -> <<<<200, 1>>, 0, V5>>
      [] line = ChanZeroGain -> <<zeroGain, 0, <<"V", "1">>>>
      [] line = ChanNoNumber -> <<<<200, 1>>, 7, <<"V", "2">>>>
      [] line = ChanShort    -> <<<<200, 1>>, 0, <<"1", "6">>>>
      [] line = ChanBaseline -> <<<<3, 1>>, -1, <<"V", "3">>>>
      [] line = ChanNegGain  -> <<<<-5, 1>>, 0, <<"V", "4">>>>
      [] line = ChanFraction -> <<<<1, 2>>, 100, <<"V", "6">>>>
      [] line = ChanUnitOnly -> <<<<200, 1>>, 2, <<"a", "V", "R">>>>

\* the i-th line after the record line of a text whose lines each end in a
\* line feed
LineAfterFirst(text, i) ==
    LET feeds == SortedSeq({j \in 1..Len(text) : text[j] = "\n"})
    IN  SubSeq(text, feeds[i] + 1, feeds[i + 1] - 1)

\* every decoded record is what the rule derives from its signal line
RecordsDerived(zeroGain) ==
    \A i \in 1..Len(heaOut.meta.gains) :
        LET d == DerivedBy(LineAfterFirst(heaText, i), zeroGain)
        IN  /\ heaOut.meta.gains[i] = d[1]
            /\ heaOut.meta.baselines[i] = d[2]
            /\ heaOut.meta.leadNames[i] = d[3]

\* the outcome of the worked example
ExampleOutcome ==
    [err  |-> "none",
     meta |-> [fs |-> <<360, 1>>, nSamples |-> 1000, nLeads |-> 2,
               leadNames |-> <<MLII, V5>>,
               gains |-> <<<<200, 1>>, <<200, 1>>>>,
               baselines |-> <<0, 0>>]]

\* C4 as stated: the gain of a signal line is the leading number of its gain
\* specifier, 200 only if that is unparsable, so that the specifier "0/mV"
\* gives the gain 0.
C4_GainAsWritten ==
    (HeaOk /\ FirstLineOf(heaText) \in FirstLines) => RecordsDerived(<<0, 1>>)

\* C4 as amended: gain = the leading number of the gain specifier before "/"
\* with "(...)" removed, or 200 if that is unparsable or zero; baseline = the
\* integer inside "(...)" if present, else 0; name = the last token of the
\* line; the worked example yields channelCount 2, sampleRate 360, gains
\* [200, 200], baselines [0, 0] and names [MLII, V5].
C4_GainDefaulted ==
    /\ (HeaOk /\ FirstLineOf(heaText) \in FirstLines) => RecordsDerived(<<200, 1>>)
    /\ (HeaRan /\ heaText \in {ExampleText, ExampleCrLf}) => heaOut = ExampleOutcome

\* a header whose signal lines give the gain 0 and no gain number at all
C4_Witness ==
    /\ HeaOk
    /\ heaText = JoinLines(<<FirstExample, ChanZeroGain, ChanNoNumber>>, <<"\n">>)
    /\ heaOut.meta.gains = <<<<200, 1>>, <<200, 1>>>>
    /\ heaOut.meta.baselines = <<0, 7>>

\* whether the record line holds fields that are not numbers
Unparsable(first) ==
    first = FirstNonNumeric

\* whether the text holds no line but blank lines and comments: every
\* character that is not white space follows, on its line, a "#" that only
\* white space precedes on that line
NoRecordLine(text) ==
    \A i \in 1..Len(text) :
        text[i] \in WhiteSpace \/
            \E j \in 1..i :
                /\ text[j] = "#"
                /\ \A k \in j..i : text[k] # "\n"
                /\ \A k \in 1..(j - 1) :
                       text[k] \in WhiteSpace \/ \E n \in (k + 1)..(j - 1) : text[n] = "\n"

\* C5: parseHea fails whenever the record line is absent, empty or
\* unparsable; a record line that gives a channel count or a sample rate has
\* it kept, the fallbacks 1 and 360 standing in for missing fields only.
C5_MalformedHeader ==
    HeaRan =>
        /\ (NoRecordLine(heaText) \/ Unparsable(FirstLineOf(heaText))) => ~HeaOk
        /\ (HeaOk /\ DeclaredLeads(FirstLineOf(heaText))[1]) =>
               heaOut.meta.nLeads = DeclaredLeads(FirstLineOf(heaText))[2]
        /\ (HeaOk /\ DeclaredRate(FirstLineOf(heaText))[1]) =>
               heaOut.meta.fs = DeclaredRate(FirstLineOf(heaText))[2]

-----------------------------------------------------------------------------
(* Claims about the WFDB panel, checked under Spec *)

\* the .dat handler has run: it keeps the file before decoding it
DatDropped ==
    datFileRef.kept

\* C6: a header that declares zero channels is fatal: once its .dat file has
\* been dropped the decode has failed with "nLeads is 0"
\* (InvalidChannelCount) and there is no channel model.
C6_ZeroChannelsFatal ==
    (DatDropped /\ DeclaredLeads(FirstLineOf(heaFile)) = <<TRUE, 0>>) =>
        /\ alertMsg = [from |-> ".dat", message |-> ErrNoLeads]
        /\ graphData = NoGraph
        /\ channels = <<>>

\* C8: when the header has fewer signal lines than the channel count it
\* declares, the channel model holds as many decoded arrays as there are
\* signal lines, and as many display records.
C8_FewerChannels ==
    LET declared == DeclaredLeads(FirstLineOf(heaFile))
        present  == LinesAfterFirst(heaFile)
    IN  (graphData.set /\ declared[1] /\ present < declared[2]) =>
            /\ Len(graphData.traces) = present
            /\ Len(channels) = present
            /\ Len(heaMeta.leadNames) = present

-----------------------------------------------------------------------------
(* Claims about parseXyz, checked under SpecXyz *)

XyzRan ==
    xyzOut # XyzNotRun

\* the numbers of each row of XyzRowTexts, worked out by hand; the empty row
\* has none
RowValues(row) ==
    CASE row = <<"1", " ", "2">>                     -> <<<<1, 1>>, <<2, 1>>>>
      [] row = <<"3", ",", "4">>                     -> <<<<3, 1>>, <<4, 1>>>>
      [] row = <<"5">>                               -> <<<<5, 1>>>>
      [] row = <<"6", " ", "7", " ", "8">>           -> <<<<6, 1>>, <<7, 1>>, <<8, 1>>>>
      [] row = <<>>                                  -> <<>>
      [] row = <<"1", ".", "5", ",", " ", "-", "2">> -> <<<<3, 2>>, <<-2, 1>>>>
      [] row = <<"x", " ", "1">>                     -> <<NaN, <<1, 1>>>>
      [] row = <<",", "9">>                          -> <<<<0, 1>>, <<9, 1>>>>

NonEmptyRow(row) ==
    row # <<>>

\* the columns of C10 for the rows rs: empty rows dropped, the column count
\* taken from the first surviving row, each row giving its i-th value to
\* column i
ColumnsOf(rs) ==
    LET kept == SelectSeq(rs, NonEmptyRow)
        n    == IF kept = <<>> THEN 0 ELSE Len(RowValues(kept[1]))
        has(i) == SortedSeq({j \in 1..Len(kept) : Len(RowValues(kept[j])) >= i})
    IN  [i \in 1..n |-> [k \in 1..Len(has(i)) |-> RowValues(kept[has(i)[k]])[i]]]

\* C10: parseXyz drops empty rows, takes the column count from the first
\* surviving row, ignores fields beyond it and lets a short row contribute
\* only to the columns it has; it returns one sequence per column.
C10_EmptyRowsDropped ==
    XyzRan =>
        \A rs \in SeqsUpTo(XyzRowTexts, MaxXyzRows) :
            xyzText = JoinLines(rs, <<"\n">>) => xyzOut = ColumnsOf(rs)

-----------------------------------------------------------------------------
(* The channel model and its display records: an .xyz upload through       *)
(* handleFileUpload, and the controls of ChannelControl                    *)

\* `XYZ_${i + 1}`, i counted from 0
XyzLabel(i) ==
    <<"X", "Y", "Z", "_">> \o DigitsOf(i + 1)

\* Array.from({ length: n }, (_, i) => i)
IndexAxis(n) ==
    [i \in 1..n |-> <<i - 1, 1>>]

\* texts of uploaded .xyz files: "1 2\n3 4", "1 2\n3" (a short row),
\* "5\n6 7" (a long row), "" and "1 2\n\n3 4" (a blank row)
XyzUploads ==
    {<<"1", " ", "2", "\n", "3", " ", "4">>,
     <<"1", " ", "2", "\n", "3">>,
     <<"5", "\n", "6", " ", "7">>,
     <<>>,
     <<"1", " ", "2", "\n", "\n", "3", " ", "4">>}

\* the effect on [channels]: chA and chB are brought back into the channel
\* list whenever it is not empty
KeepPairValid(pair, len) ==
    IF len > 0
    THEN [pair EXCEPT !.chA = Min(@, len - 1),
                      !.chB = Min(Max(@, 0), len - 1)]
    ELSE pair

\* setWindowSize(1000) of handleFileUpload
UploadWindowSize ==
    1000

\* handleFileUpload(file) with fileFormat 'xyz' and signalType 'ecg'
HandleFileUploadXyz(text) ==
    LET traces == parseXyz(text)
        n      == FirstLength(traces)
    IN  /\ xyzText' = text
        /\ xyzOut' = traces
        /\ playing' = FALSE
        /\ playIndex' = <<0, 1>>
        /\ stoppedIndex' = <<0, 1>>
        /\ windowSize' = UploadWindowSize
        /\ reports' = NoReports
        /\ applySignals([i \in 1..Len(traces) |-> XyzLabel(i - 1)], traces, IndexAxis(n))
        /\ loading' = FALSE
        /\ PlaybackEffect
        /\ UNCHANGED <<heaText, heaOut, datBuf, datMeta, datOut>>
        /\ UNCHANGED <<heaFile, datFile, heaMeta, datFileRef, alertMsg>>
        /\ UNCHANGED viewVars
        /\ UNCHANGED <<signalType, fileFormat, requests, speed, displayMode, relayout>>

\* prev.map(c => c.id === id ? { ...c, visible: !c.visible } : c)
toggleChannel(prev, id) ==
    [i \in 1..Len(prev) |->
        IF prev[i].id = id THEN [prev[i] EXCEPT !.visible = ~@] ELSE prev[i]]

\* prev.map(c => c.id === id ? { ...c, color } : c)
changeColor(prev, id, color) ==
    [i \in 1..Len(prev) |->
        IF prev[i].id = id THEN [prev[i] EXCEPT !.color = color] ELSE prev[i]]

\* prev.map(c => c.id === id ? { ...c, thickness } : c)
changeThickness(prev, id, thickness) ==
    [i \in 1..Len(prev) |->
        IF prev[i].id = id THEN [prev[i] EXCEPT !.thickness = thickness] ELSE prev[i]]

\* the handlers pruning the model to the visible channels as well
SetChannelsPruningModel(next) ==
    /\ channels' = next
    /\ pairSel' = KeepPairValid(pairSel, Len(next))
    /\ graphData' = [graphData EXCEPT !.traces =
                        SelectSeq(@, LAMBDA t : \E i \in 1..Len(next) :
                                        next[i].visible /\ graphData.traces[i] = t)]
    /\ UNCHANGED <<heaFile, datFile, heaMeta, datFileRef, loading, alertMsg>>
    /\ UNCHANGED <<parseVars, viewVars, sessVars, playVars>>

\* setChannels(next) followed by the effect on [channels]
SetChannels(next) ==
    /\ channels' = next
    /\ pairSel' = KeepPairValid(pairSel, Len(next))
    /\ UNCHANGED <<heaFile, datFile, heaMeta, graphData, datFileRef, loading, alertMsg>>
    /\ UNCHANGED <<parseVars, viewVars, sessVars, playVars>>

\* the ids ChannelControl renders a row of controls for
ChannelIds ==
    {channels[i].id : i \in 1..Len(channels)}

\* colors the color input hands to onColorChange: the first palette color
\* and a color outside the palette
PickedColors ==
    {0, NumColors}

\* values the thickness slider (1 to 5) hands to onThicknessChange
PickedThickness ==
    {<<1, 1>>, <<5, 1>>}

\* the checkbox of a channel
OnToggle(id) ==
    id \in ChannelIds /\ SetChannels(toggleChannel(channels, id))

\* the color input of a channel
OnColorChange(id, color) ==
    id \in ChannelIds /\ SetChannels(changeColor(channels, id, color))

\* the thickness slider of a channel
OnThicknessChange(id, thickness) ==
    id \in ChannelIds /\ SetChannels(changeThickness(channels, id, thickness))

\* the component after mounting: no file, no model, no channel
StartView ==
    IdleHea /\ IdleDat /\ IdleXyz /\ IdlePanel /\ IdleView /\ IdleSess /\ IdlePlay

UploadXyz ==
    \E text \in XyzUploads : HandleFileUploadXyz(text)

Toggle ==
    \E id \in 0..2 : OnToggle(id)

Recolor ==
    \E id \in 0..2, color \in PickedColors : OnColorChange(id, color)

Rethicken ==
    \E id \in 0..2, thickness \in PickedThickness : OnThicknessChange(id, thickness)

NextView ==
    UploadXyz \/ Toggle \/ Recolor \/ Rethicken

SpecView ==
    StartView /\ [][NextView]_vars

-----------------------------------------------------------------------------
(* Claims about the channel model, checked under SpecView *)

\* the length of the shortest of the arrays, 0 when there is none
ShortestLength(arrays) ==
    IF arrays = <<>> THEN 0
    ELSE CHOOSE n \in {Len(arrays[i]) : i \in 1..Len(arrays)} :
             \A i \in 1..Len(arrays) : n <= Len(arrays[i])

DisplayStep ==
    \/ \E id \in 0..2 : OnToggle(id)
    \/ \E id \in 0..2, color \in PickedColors : OnColorChange(id, color)
    \/ \E id \in 0..2, thickness \in PickedThickness : OnThicknessChange(id, thickness)

\* the display records a and b are those of the same channels
SameChannels(a, b) ==
    /\ Len(a) = Len(b)
    /\ \A i \in 1..Len(a) : a[i].id = b[i].id /\ a[i].label = b[i].label

\* C12: the channel model is what the last upload decoded, whatever was done
\* to the display records since (it is replaced wholesale, never mutated),
\* and a step that toggles a channel or changes its color or thickness
\* changes the display records of the same channels only, leaving the time
\* axis and every channel array as they are.
C12_ModelNotMutated ==
    /\ [](graphData.set =>
            /\ graphData.traces = xyzOut
            /\ graphData.time = [i \in 1..FirstLength(xyzOut) |-> <<i - 1, 1>>])
    /\ [][DisplayStep =>
            /\ graphData' = graphData
            /\ channels' # channels
            /\ SameChannels(channels', channels)]_vars

\* a model of two channels whose first channel is hidden and recolored and
\* whose second channel is drawn thicker
C12_Witness ==
    /\ graphData.set
    /\ Len(graphData.traces) = 2
    /\ Len(channels) = 2
    /\ ~channels[1].visible
    /\ channels[1].color = NumColors
    /\ channels[2].thickness = <<5, 1>>

-----------------------------------------------------------------------------
(* Arithmetic of JavaScript numbers, taken as exact *)

\* x < y; false when either is NaN (common factors are cancelled before
\* the cross-multiplication)
NumLess(x, y) ==
    LET g == Max(1, GCD(Abs(x[1]), Abs(y[1])))
        h == Max(1, GCD(x[2], y[2]))
    IN  /\ ~IsNaN(x) /\ ~IsNaN(y)
        /\ (x[1] \div g) * (y[2] \div h) < (y[1] \div g) * (x[2] \div h)

\* x - y
NumSub(x, y) ==
    IF IsNaN(x) \/ IsNaN(y) THEN NaN
    ELSE Rat(x[1] * y[2] - y[1] * x[2], x[2] * y[2])

\* x + y
NumAdd(x, y) ==
    IF IsNaN(x) \/ IsNaN(y) THEN NaN
    ELSE Rat(x[1] * y[2] + y[1] * x[2], x[2] * y[2])

\* x * y, common factors cancelled before multiplying
NumMul(x, y) ==
    LET g == GCD(Abs(x[1]), y[2])
        h == GCD(Abs(y[1]), x[2])
    IN  IF IsNaN(x) \/ IsNaN(y) THEN NaN
        ELSE Rat((x[1] \div g) * (y[1] \div h), (x[2] \div h) * (y[2] \div g))

\* x / y for finite x; 0 / 0 is NaN and x / 0 an infinity
NumDiv(x, y) ==
    IF IsNaN(x) \/ IsNaN(y) THEN NaN
    ELSE IF y[1] = 0 THEN Rat(x[1], 0)
    ELSE NumMul(x, <<Sign(y[1]) * y[2], Abs(y[1])>>)

\* Math.abs
NumAbs(x) ==
    <<Abs(x[1]), x[2]>>

RECURSIVE NumSum(_)
\* arr.reduce((s, v) => s + v, 0)
NumSum(arr) ==
    IF arr = <<>> THEN <<0, 1>>
    ELSE NumAdd(NumSum(SubSeq(arr, 1, Len(arr) - 1)), arr[Len(arr)])

\* arr.slice(from, to), from and to counted from 0 and not negative
Slice(arr, from, to) ==
    SubSeq(arr, from + 1, Min(to, Len(arr)))

-----------------------------------------------------------------------------
(* normalize, binarize and the XOR render effect *)

RECURSIVE ScanMin(_, _, _)
\* mn after the loop of normalize has run from index i (counted from 1)
ScanMin(arr, i, mn) ==
    IF i > Len(arr) THEN mn
    ELSE ScanMin(arr, i + 1, IF NumLess(arr[i], mn) THEN arr[i] ELSE mn)

RECURSIVE ScanMax(_, _, _)
\* mx after the loop of normalize has run from index i (counted from 1)
ScanMax(arr, i, mx) ==
    IF i > Len(arr) THEN mx
    ELSE ScanMax(arr, i + 1, IF NumLess(mx, arr[i]) THEN arr[i] ELSE mx)

\* normalize(arr); arr[0] of an empty array is undefined, which makes the
\* range NaN || 1
normalize(arr) ==
    LET first == IF arr = <<>> THEN NaN ELSE arr[1]
        mn    == ScanMin(arr, 2, first)
        mx    == ScanMax(arr, 2, first)
        rng   == OrElse(NumSub(mx, mn), <<1, 1>>)
    IN  [i \in 1..Len(arr) |-> NumDiv(NumSub(arr[i], mn), rng)]

\* binarize with the two outcomes of the threshold swapped
binarizeSwapped(arr) ==
    LET n == normalize(arr)
    IN  [i \in 1..Len(arr) |-> IF NumLess(n[i], <<1, 2>>) \/ IsNaN(n[i]) THEN <<1, 1>> ELSE <<0, 1>>]

\* binarize(arr): v >= 0.5 ? 1 : 0
binarize(arr) ==
    LET n == normalize(arr)
    IN  [i \in 1..Len(arr) |-> IF NumLess(n[i], <<1, 2>>) \/ IsNaN(n[i]) THEN <<0, 1>> ELSE <<1, 1>>]

\* v ^ binB[i] for bits v of binA; binB[i] is undefined past the end of
\* binB and counts as 0
XorBits(binA, binB) ==
    [i \in 1..Len(binA) |->
        IF i <= Len(binB) /\ binB[i] # binA[i] THEN <<1, 1>>
        ELSE IF i <= Len(binB) THEN <<0, 1>>
        ELSE binA[i]]

\* the XOR energy with the chunk of B taken one sample late
ChunkEnergyShifted(rawA, rawB, start, size) ==
    NumDiv(NumSum(XorBits(binarize(Slice(rawA, start, start + size)),
                          binarize(Slice(rawB, start + 1, start + 1 + size)))),
           <<size, 1>>)

\* one entry of xorEnergy: the chunk that starts at index start
ChunkEnergy(rawA, rawB, start, size) ==
    NumDiv(NumSum(XorBits(binarize(Slice(rawA, start, start + size)),
                          binarize(Slice(rawB, start, start + size)))),
           <<size, 1>>)

\* Math.floor(rawA.length / chunkSize)
NumChunks(len, size) ==
    len \div size

\* graphData.traces[ch] is truthy: the model is set and holds the channel
HasTrace(ch) ==
    graphData.set /\ ch >= 0 /\ ch < Len(graphData.traces)

\* what the XOR effect hands to Plotly.react
XorPlot ==
    LET rawA == graphData.traces[pairSel.chA + 1]
        rawB == graphData.traces[pairSel.chB + 1]
        numChunks == NumChunks(Len(rawA), chunkSize)
        chunkIndices == [c \in 1..numChunks |-> (c - 1) * chunkSize]
    IN  IF HasTrace(pairSel.chA) /\ HasTrace(pairSel.chB)
        THEN [kind |-> "XOR",
              binA |-> binarize(rawA),
              binB |-> binarize(rawB),
              xored |-> XorBits(binarize(rawA), binarize(rawB)),
              allIdx |-> [i \in 1..Len(rawA) |-> i - 1],
              chunkIndices |-> chunkIndices,
              xorEnergy |-> [c \in 1..numChunks |->
                                ChunkEnergy(rawA, rawB, chunkIndices[c], chunkSize)]]
        ELSE [kind |-> "XOR empty"]

\* the XOR render effect
XorRender ==
    /\ viewerMode = "XOR"
    /\ plot' = XorPlot
    /\ UNCHANGED <<viewerMode, chunkSize, periodicity, stats>>
    /\ UNCHANGED <<parseVars, panelVars, sessVars, playVars>>

-----------------------------------------------------------------------------
(* The XOR transform applied to two-channel models.  The chunk-size slider
   offers 16, 32, ... 256; the transform itself takes any size from 1 up,
   and the small sizes reach several chunks on short traces. *)

MaxTraceLen == 3

Samples ==
    {<<0, 1>>, <<1, 1>>, <<-3, 2>>}

TracesOfLen(len) ==
    [1..len -> Samples]

\* a loaded model of the two given traces
ModelOf(a, b) ==
    [set |-> TRUE, time |-> IndexAxis(Len(a)), traces |-> <<a, b>>]

\* every first channel over the three sample values with every second
\* channel over two of them; the selectors take the channels in either order
SmallModels ==
    UNION {{ModelOf(a, b) : a \in TracesOfLen(len),
                            b \in [1..len -> {<<0, 1>>, <<1, 1>>}]} :
              len \in 0..MaxTraceLen}

\* a trace of length len that repeats the pattern
Repeated(pattern, len) ==
    [i \in 1..len |-> pattern[((i - 1) % Len(pattern)) + 1]]

ExampleA ==
    <<<<1, 1>>, <<0, 1>>, <<1, 1>>, <<1, 1>>>>

ExampleB ==
    <<<<1, 1>>, <<1, 1>>, <<1, 1>>, <<0, 1>>>>

\* 33 samples that swing between 0 and 1 at first and between 0 and 4 later
LongA ==
    [i \in 1..33 |-> <<IF i <= 16 THEN i % 2 ELSE 4 * (i % 2), 1>>]

\* two channels of three levels whose whole-signal binarizations are those
\* of ExampleA and ExampleB
SkewedA ==
    <<<<0, 1>>, <<-3, 2>>, <<0, 1>>, <<0, 1>>>>

SkewedB ==
    <<<<0, 1>>, <<1, 1>>, <<0, 1>>, <<-3, 2>>>>

LongB ==
    Repeated(<<<<3, 1>>, <<0, 1>>, <<1, 2>>>>, 33)

XorModels ==
    SmallModels \cup
    {NoGraph,
     ModelOf(ExampleA, ExampleB),
     ModelOf(SkewedA, SkewedB),
     ModelOf(LongA, LongB),
     ModelOf(<<<<1, 1>>, <<0, 1>>, <<1, 1>>>>, <<<<1, 1>>>>),
     ModelOf(<<NaN, <<1, 1>>, <<0, 1>>>>, <<<<1, 1>>, NaN, <<0, 1>>>>)}

ChunkSizes ==
    {1, 2, 3, 16}

\* the pair selection after the load, with the two selectors set
PairOf(data, a, b) ==
    [chA |-> a, chB |-> b,
     sampleCount |-> SampleCountFor(FirstLength(data.traces)),
     allSamples |-> FALSE]

\* the channel list of a loaded two-channel model
ChannelsOf(data) ==
    IF data.set THEN NewChannels([i \in 1..Len(data.traces) |-> XyzLabel(i - 1)])
    ELSE <<>>

StartXor ==
    /\ IdleHea /\ IdleDat /\ IdleXyz
    /\ heaFile = <<>>
    /\ datFile = <<>>
    /\ heaMeta = NoMeta
    /\ datFileRef = NoFile
    /\ loading = FALSE
    /\ alertMsg = NoAlert
    /\ IdleSess /\ IdlePlay
    /\ graphData \in XorModels
    /\ channels = ChannelsOf(graphData)
    /\ \E a \in 0..1, b \in 0..1 : pairSel = PairOf(graphData, a, b)
    /\ viewerMode = "XOR"
    /\ chunkSize \in ChunkSizes
    /\ periodicity = InitPeriodicity
    /\ plot = NoPlot
    /\ stats = NoStats

SpecXor ==
    StartXor /\ [][XorRender]_vars

-----------------------------------------------------------------------------
(* Claims about the XOR transform, checked under SpecXor *)

\* the two selected channels, once the XOR plot of a loaded model is drawn
RawA ==
    graphData.traces[pairSel.chA + 1]

RawB ==
    graphData.traces[pairSel.chB + 1]

XorDrawn ==
    plot # NoPlot /\ plot.kind = "XOR"

\* the indices (from 1) of chunk c (from 1)
ChunkRange(c) ==
    ((c - 1) * chunkSize + 1)..(c * chunkSize)

\* C13: for every chunk k the energy is the number of indices of the chunk
\* at which the whole-signal binarizations binA and binB of the plotted XOR
\* trace differ, divided by the chunk size S.
C13_WholeSignalEnergy ==
    (XorDrawn /\ Len(RawA) = Len(RawB)) =>
        \A c \in 1..Len(plot.xorEnergy) :
            plot.xorEnergy[c][1] * chunkSize =
                Cardinality({i \in ChunkRange(c) : plot.binA[i] # plot.binB[i]})
                    * plot.xorEnergy[c][2]

\* C14: when the two selected channels hold the same array, the XOR trace
\* is 0 at every index and the energy of every chunk is 0, for every chunk
\* size.
C14_IdenticalChannels ==
    (XorDrawn /\ RawA = RawB) =>
        /\ \A i \in 1..Len(plot.xored) : plot.xored[i] = <<0, 1>>
        /\ \A c \in 1..Len(plot.xorEnergy) : plot.xorEnergy[c] = <<0, 1>>

C14_Witness ==
    /\ XorDrawn
    /\ RawA = RawB
    /\ pairSel.chA # pairSel.chB
    /\ Len(plot.xorEnergy) >= 2
    /\ \E i \in 1..Len(plot.binA) : plot.binA[i] = <<1, 1>>

C16_BinarizeIdempotent ==
    XorDrawn =>
        /\ plot.binA = binarize(RawA)
        /\ plot.binB = binarize(RawB)
        /\ binarize(plot.binA) = plot.binA
        /\ binarize(plot.binB) = plot.binB

C16_Witness ==
    /\ XorDrawn
    /\ Len(RawA) = 3
    /\ \A i \in 1..3 : RawA[i] = <<1, 1>>
    /\ \E i \in 1..Len(plot.binB) : plot.binB[i] = <<1, 1>>
    /\ \E i \in 1..Len(plot.binB) : plot.binB[i] = <<0, 1>>

-----------------------------------------------------------------------------
(* The Polar render effect and the Polar statistics card *)

\* the 1e-6 added to |B|
Epsilon ==
    <<1, 1000000>>

\* n: allSamples ? totalN : Math.min(sampleCount, totalN)
WindowLength ==
    LET totalN == Min(Len(graphData.traces[pairSel.chA + 1]),
                      Len(graphData.traces[pairSel.chB + 1]))
    IN  IF pairSel.allSamples THEN totalN ELSE Min(pairSel.sampleCount, totalN)

\* sigA and sigB: the first n samples of the two selected channels
SigA ==
    Slice(graphData.traces[pairSel.chA + 1], 0, WindowLength)

SigB ==
    Slice(graphData.traces[pairSel.chB + 1], 0, WindowLength)

\* rRaw: Math.abs(v) / (Math.abs(sigB[i]) + 1e-6)
RRaw ==
    LET sigA == SigA
        sigB == SigB
    IN  [i \in 1..Len(sigA) |-> NumDiv(NumAbs(sigA[i]), NumAdd(NumAbs(sigB[i]), Epsilon))]

\* [...arr].sort((a, b) => a - b) for finite numbers: ascending order
NumSorted(arr) ==
    LET rank(i) == Cardinality({j \in 1..Len(arr) : NumLess(arr[j], arr[i])})
                   + Cardinality({j \in 1..(i - 1) : arr[j] = arr[i]}) + 1
    IN  [k \in 1..Len(arr) |-> arr[CHOOSE i \in 1..Len(arr) : rank(i) = k]]

\* Math.floor(sorted.length * 0.95): the product rounds to the integer
\* 19 * len / 20 whenever that is one, so the floor is that of 19 * len / 20
P95Index(len) ==
    (19 * len) \div 20

\* the percentile without the fallback for a falsy element
P95NoFallback(arr) ==
    LET at == P95Index(Len(arr))
    IN  IF at < Len(arr) THEN NumSorted(arr)[at + 1] ELSE <<1, 1>>

\* p95: sorted[Math.floor(sorted.length * 0.95)] || 1
P95(arr) ==
    LET at == P95Index(Len(arr))
    IN  IF at < Len(arr) THEN OrElse(NumSorted(arr)[at + 1], <<1, 1>>) ELSE <<1, 1>>

\* the radius divided by p95 without the clamp
ClippedUnclamped(v, p95) ==
    NumDiv(v, p95)

\* Math.min(v, p95) / p95
Clipped(v, p95) ==
    NumDiv(IF NumLess(p95, v) THEN p95 ELSE v, p95)

\* what the Polar effect hands to Plotly.react
PolarPlot ==
    LET rRaw == RRaw
        p95  == P95(rRaw)
    IN  IF HasTrace(pairSel.chA) /\ HasTrace(pairSel.chB)
        THEN [kind |-> "Polar",
              r |-> [i \in 1..Len(rRaw) |-> Clipped(rRaw[i], p95)],
              theta |-> [i \in 1..Len(rRaw) |->
                            NumMul(Rat((i - 1) % periodicity, periodicity), <<360, 1>>)]]
        ELSE [kind |-> "Polar demo"]

\* the rows of the Polar Stats card that do not need a square root
PolarStats ==
    IF HasTrace(pairSel.chA) /\ HasTrace(pairSel.chB)
    THEN [kind |-> "Polar",
          n |-> WindowLength,
          revolutions |-> WindowLength \div periodicity,
          p95 |-> P95(RRaw),
          period |-> periodicity]
    ELSE [kind |-> "No data loaded"]

\* the effect sorting the second selected channel in place, where the code
\* sorts a copy of rRaw
PolarRenderSortingInPlace ==
    /\ viewerMode = "Polar"
    /\ plot' = PolarPlot
    /\ graphData' = IF HasTrace(pairSel.chB)
                    THEN [graphData EXCEPT !.traces[pairSel.chB + 1] = NumSorted(@)]
                    ELSE graphData
    /\ UNCHANGED <<viewerMode, chunkSize, periodicity, stats>>
    /\ UNCHANGED <<heaFile, datFile, heaMeta, channels, datFileRef, pairSel,
                   loading, alertMsg>>
    /\ UNCHANGED <<parseVars, sessVars, playVars>>

\* the Polar render effect
PolarRender ==
    /\ viewerMode = "Polar"
    /\ plot' = PolarPlot
    /\ UNCHANGED <<viewerMode, chunkSize, periodicity, stats>>
    /\ UNCHANGED <<parseVars, panelVars, sessVars, playVars>>

\* the Polar Stats card
PolarCard ==
    /\ viewerMode = "Polar"
    /\ stats' = PolarStats
    /\ UNCHANGED <<viewerMode, chunkSize, periodicity, plot>>
    /\ UNCHANGED <<parseVars, panelVars, sessVars, playVars>>

-----------------------------------------------------------------------------
(* The Polar view of two-channel models *)

MaxPolarLen == 2

\* 21 samples of A over a constant B: radii 1, 2, ..., 21 times 1e6 / 1000001
RampA ==
    [i \in 1..21 |-> <<i, 1>>]

OnesOf(len) ==
    [i \in 1..len |-> <<1, 1>>]

\* 40 samples of A, zero but for the last, over B with zeros
SpikesA ==
    [i \in 1..40 |-> <<IF i > 39 THEN 4 ELSE 0, 1>>]

SpikesB ==
    [i \in 1..40 |-> <<i % 2, 1>>]

\* 105 samples, more than the least sample cap of 100
CappedA ==
    [i \in 1..105 |-> <<((i * 7) % 11) - 5, 1>>]

CappedB ==
    [i \in 1..105 |-> <<(i * 3) % 5, 2>>]

PolarModels ==
    UNION {{ModelOf(a, b) : a \in TracesOfLen(len), b \in TracesOfLen(len)} :
              len \in 0..MaxPolarLen}
    \cup {NoGraph,
          ModelOf(RampA, OnesOf(21)),
          ModelOf(SpikesA, SpikesB),
          ModelOf(CappedA, CappedB),
          ModelOf(<<<<1, 1>>, <<0, 1>>, <<1, 1>>>>, <<<<1, 1>>>>)}

\* settings of the periodicity slider (10 to 1000 in steps of 10)
Periodicities ==
    {10, InitPeriodicity}

\* settings of the sample-count slider (from 100 up) and the value after a load
SampleCounts ==
    {100, 500}

StartPolar ==
    /\ IdleHea /\ IdleDat /\ IdleXyz
    /\ heaFile = <<>>
    /\ datFile = <<>>
    /\ heaMeta = NoMeta
    /\ datFileRef = NoFile
    /\ loading = FALSE
    /\ alertMsg = NoAlert
    /\ IdleSess /\ IdlePlay
    /\ graphData \in PolarModels
    /\ channels = ChannelsOf(graphData)
    /\ \E a \in 0..1, b \in 0..1, count \in SampleCounts, all \in BOOLEAN :
           pairSel = [chA |-> a, chB |-> b, sampleCount |-> count, allSamples |-> all]
    /\ viewerMode = "Polar"
    /\ chunkSize = InitChunkSize
    /\ periodicity \in Periodicities
    /\ plot = NoPlot
    /\ stats = NoStats

NextPolar ==
    PolarRender \/ PolarCard

SpecPolar ==
    StartPolar /\ [][NextPolar]_vars

-----------------------------------------------------------------------------
(* Claims about the Polar view, checked under SpecPolar *)

PolarDrawn ==
    /\ plot # NoPlot /\ plot.kind = "Polar"
    /\ stats # NoStats /\ stats.kind = "Polar"

\* the sample cap n, from the selection and the two channel lengths
PolarN ==
    LET lenA == Len(RawA)
        lenB == Len(RawB)
        shorter == IF lenA < lenB THEN lenA ELSE lenB
    IN  IF pairSel.allSamples \/ shorter < pairSel.sampleCount THEN shorter
        ELSE pairSel.sampleCount

\* C17: in Polar mode every normalized radius r[i], 0 <= i < n, lies in
\* [0,1], whatever the channels and the sample cap n (zeros in B and a p95
\* of 0 included), and the reported revolution count is floor(n / P).
C17_RadiusInUnitRange ==
    PolarDrawn =>
        /\ Len(plot.r) = PolarN
        /\ stats.n = PolarN
        /\ \A i \in 1..Len(plot.r) :
               /\ plot.r[i][2] > 0
               /\ 0 <= plot.r[i][1]
               /\ plot.r[i][1] <= plot.r[i][2]
        /\ stats.revolutions * periodicity <= PolarN
        /\ PolarN < (stats.revolutions + 1) * periodicity

\* a state with zeros in B, radii of 0 and of 1 and in between, and two
\* revolutions at least
C17_Witness ==
    /\ PolarDrawn
    /\ stats.revolutions >= 2
    /\ \E i \in 1..PolarN : RawB[i] = <<0, 1>>
    /\ \E i \in 1..PolarN : plot.r[i] = <<0, 1>>
    /\ \E i \in 1..PolarN : plot.r[i] = <<1, 1>>
    /\ \E i \in 1..PolarN : plot.r[i] \notin {<<0, 1>>, <<1, 1>>}

\* C17 also for a p95 of 0: every radius of the window is 0
C17_WitnessZero ==
    /\ PolarDrawn
    /\ PolarN > 0
    /\ \A i \in 1..PolarN : RawA[i] = <<0, 1>>

\* |A[i]| / (|B[i]| + 1e-6) for sample i (from 1) of the window, worked out
\* on the numerators and denominators of the two samples
Radius(i) ==
    Rat(Abs(RawA[i][1]) * RawB[i][2] * 1000000,
        RawA[i][2] * (Abs(RawB[i][1]) * 1000000 + RawB[i][2]))

\* floor(0.95 * n)
Floor95(n) ==
    Cardinality({j \in 1..n : 20 * j <= 19 * n})

\* the radius at index k (from 0) of the ascending order of the n radii:
\* at most k radii are smaller and more than k are not larger
RadiusAt(k, n) ==
    CHOOSE v \in {Radius(i) : i \in 1..n} :
        /\ Cardinality({i \in 1..n : NumLess(Radius(i), v)}) <= k
        /\ Cardinality({i \in 1..n : ~NumLess(v, Radius(i))}) > k

\* C18 as stated: the reported p95 is the radius at index floor(0.95 n) of
\* the ascending order whenever n > 0, and 1 only when n = 0.
C18_P95AsSorted ==
    PolarDrawn =>
        stats.p95 = IF PolarN > 0 THEN RadiusAt(Floor95(PolarN), PolarN) ELSE <<1, 1>>

\* C18 amended: the reported p95 is the radius at index floor(0.95 n) of the
\* ascending order when n > 0 and that radius is not 0; it is 1 when n = 0
\* or that radius is 0; and every r[i] is min(r_raw[i], p95) / p95.
C18_P95OrOne ==
    PolarDrawn =>
        /\ stats.p95 = IF PolarN > 0 /\ RadiusAt(Floor95(PolarN), PolarN) # <<0, 1>>
                       THEN RadiusAt(Floor95(PolarN), PolarN)
                       ELSE <<1, 1>>
        /\ \A i \in 1..PolarN :
               NumMul(plot.r[i], stats.p95) =
                   IF NumLess(stats.p95, Radius(i)) THEN stats.p95 ELSE Radius(i)

\* a window of 40 samples whose radius at index 38 is 0 while a larger
\* radius exists: p95 is 1
C18_Witness ==
    /\ PolarDrawn
    /\ PolarN = 40
    /\ RadiusAt(38, PolarN) = <<0, 1>>
    /\ \E i \in 1..PolarN : NumLess(<<1, 1>>, Radius(i))
    /\ stats.p95 = <<1, 1>>

\* a window whose p95 is a radius below the largest one
C18_WitnessClamped ==
    /\ PolarDrawn
    /\ PolarN > 20
    /\ stats.p95 # <<1, 1>>
    /\ \E i \in 1..PolarN : NumLess(stats.p95, Radius(i))

-----------------------------------------------------------------------------
(* The Recurrence render effect and the Trajectory statistics card *)

\* arr.reduce((s, v) => s + v, 0) / n
Mean(arr) ==
    NumDiv(NumSum(arr), <<Len(arr), 1>>)

\* the square of std: arr.reduce((s, v) => s + (v - mean) ** 2, 0) / n
Variance(arr) ==
    LET mean == Mean(arr)
    IN  NumDiv(NumSum([i \in 1..Len(arr) |->
                          NumMul(NumSub(arr[i], mean), NumSub(arr[i], mean))]),
               <<Len(arr), 1>>)

\* the products summed without taking the means off
CovarianceUncentred(sigA, sigB) ==
    NumDiv(NumSum([i \in 1..Len(sigA) |-> NumMul(sigA[i], sigB[i])]),
           <<Len(sigA), 1>>)

\* cov: sigA.reduce((s, v, i) => s + (v - meanA) * (sigB[i] - meanB), 0) / n
Covariance(sigA, sigB) ==
    LET meanA == Mean(sigA)
        meanB == Mean(sigB)
    IN  NumDiv(NumSum([i \in 1..Len(sigA) |->
                          NumMul(NumSub(sigA[i], meanA), NumSub(sigB[i], meanB))]),
               <<Len(sigA), 1>>)

\* the number 0 as a correlation
ZeroCorr ==
    <<0, <<0, 1>>>>

\* the quotient taken whatever the standard deviations are
CorrUnguarded(sigA, sigB) ==
    LET cov == Covariance(sigA, sigB)
    IN  <<Sign(cov[1]),
          NumDiv(NumMul(cov, cov), NumMul(Variance(sigA), Variance(sigB)))>>

\* corr: stdA * stdB > 0 ? cov / (stdA * stdB) : 0.  The standard deviations
\* are square roots, so the quotient is kept as <<sign, square>>: its sign
\* and cov^2 / (stdA^2 * stdB^2).  stdA * stdB > 0 exactly when both squares
\* are above 0 (a NaN of the empty window is not).
Corr(sigA, sigB) ==
    LET cov == Covariance(sigA, sigB)
    IN  IF NumLess(<<0, 1>>, Variance(sigA)) /\ NumLess(<<0, 1>>, Variance(sigB))
        THEN <<Sign(cov[1]),
               NumDiv(NumMul(cov, cov), NumMul(Variance(sigA), Variance(sigB)))>>
        ELSE ZeroCorr

\* what the Recurrence effect hands to Plotly.react
RecurrencePlot ==
    IF HasTrace(pairSel.chA) /\ HasTrace(pairSel.chB)
    THEN [kind |-> "Recurrence", x |-> SigA, y |-> SigB,
          timeIdx |-> [i \in 1..WindowLength |-> i - 1]]
    ELSE [kind |-> "Recurrence demo"]

\* let min = sig[0]; for (const v of sig) if (v < min) min = v: undefined
\* for an empty window
MinOf(sig) ==
    IF sig = <<>> THEN Undefined ELSE ScanMin(sig, 1, sig[1])

\* the rows of the Trajectory Stats card that do not need a square root
\* other than through corr.  The card prints minA.toFixed(1) and
\* minB.toFixed(1), which raise a TypeError on undefined.
TrajectoryStats ==
    IF HasTrace(pairSel.chA) /\ HasTrace(pairSel.chB)
    THEN [kind |-> "Trajectory",
          n |-> WindowLength,
          meanA |-> Mean(SigA),
          meanB |-> Mean(SigB),
          minA |-> MinOf(SigA),
          minB |-> MinOf(SigB),
          corr |-> Corr(SigA, SigB),
          raised |-> MinOf(SigA) = Undefined \/ MinOf(SigB) = Undefined]
    ELSE [kind |-> "No data loaded"]

\* the Recurrence render effect
RecurrenceRender ==
    /\ viewerMode = "Recurrence"
    /\ plot' = RecurrencePlot
    /\ UNCHANGED <<viewerMode, chunkSize, periodicity, stats>>
    /\ UNCHANGED <<parseVars, panelVars, sessVars, playVars>>

\* the Trajectory Stats card
TrajectoryCard ==
    /\ viewerMode = "Recurrence"
    /\ stats' = TrajectoryStats
    /\ UNCHANGED <<viewerMode, chunkSize, periodicity, plot>>
    /\ UNCHANGED <<parseVars, panelVars, sessVars, playVars>>

-----------------------------------------------------------------------------
(* The Recurrence view of two-channel models *)

\* the trace k * a
Scaled(a, k) ==
    [i \in 1..Len(a) |-> NumMul(a[i], k)]

Factors ==
    {<<2, 1>>, <<-2, 1>>, <<1, 3>>}

RecModels ==
    SmallModels
    \cup {ModelOf(a, Scaled(a, k)) : a \in TracesOfLen(MaxTraceLen), k \in Factors}
    \cup {NoGraph,
          ModelOf(<<<<1, 1>>, <<0, 1>>, <<1, 1>>>>, <<<<1, 1>>>>)}

StartRec ==
    /\ IdleHea /\ IdleDat /\ IdleXyz
    /\ heaFile = <<>>
    /\ datFile = <<>>
    /\ heaMeta = NoMeta
    /\ datFileRef = NoFile
    /\ loading = FALSE
    /\ alertMsg = NoAlert
    /\ IdleSess /\ IdlePlay
    /\ graphData \in RecModels
    /\ channels = ChannelsOf(graphData)
    /\ \E a \in 0..1, b \in 0..1, all \in BOOLEAN :
           pairSel = [PairOf(graphData, a, b) EXCEPT !.allSamples = all]
    /\ viewerMode = "Recurrence"
    /\ chunkSize = InitChunkSize
    /\ periodicity = InitPeriodicity
    /\ plot = NoPlot
    /\ stats = NoStats

NextRec ==
    RecurrenceRender \/ TrajectoryCard

SpecRec ==
    StartRec /\ [][NextRec]_vars

-----------------------------------------------------------------------------
(* Claims about the Trajectory statistics, checked under SpecRec *)

RecDrawn ==
    stats # NoStats /\ stats.kind = "Trajectory"

\* no two samples of the first n of arr differ
FlatOver(arr, n) ==
    \A i \in 1..n, j \in 1..n : arr[i] = arr[j]

\* sample i shows B = k * A with k # 0 over the first n samples
ScaledAt(i, n) ==
    /\ RawA[i][1] # 0
    /\ RawB[i][1] # 0
    /\ \A j \in 1..n : NumMul(RawB[j], RawA[i]) = NumMul(RawA[j], RawB[i])

\* C19: the correlation is exactly 0 whenever the standard deviation of A
\* or of B over the window is 0 (a flat channel), whatever the window
\* length; it is not NaN and not the result of a division by zero.
C19_FlatCorrelation ==
    (RecDrawn /\ (FlatOver(RawA, stats.n) \/ FlatOver(RawB, stats.n))) =>
        stats.corr = <<0, <<0, 1>>>>

C19_Witness ==
    /\ RecDrawn
    /\ stats.n = 3
    /\ FlatOver(RawA, 3)
    /\ RawA[1] = <<1, 1>>
    /\ ~FlatOver(RawB, 3)
    /\ stats.corr = <<0, <<0, 1>>>>

C20_WitnessNegative ==
    /\ RecDrawn
    /\ stats.n = 3
    /\ RawA = <<<<0, 1>>, <<1, 1>>, <<-3, 2>>>>
    /\ RawB = <<<<0, 1>>, <<-2, 1>>, <<3, 1>>>>
    /\ stats.corr = <<-1, <<1, 1>>>>

\* a selected channel is absent from the model or holds no sample
ChannelMissing ==
    \/ ~HasTrace(pairSel.chA)
    \/ ~HasTrace(pairSel.chB)
    \/ Len(RawA) = 0
    \/ Len(RawB) = 0

\* C21: a pair transform invoked when either selected channel is absent or
\* empty yields the no-data result (the "No data loaded" card, the
\* placeholder plot): nothing is computed from the missing data and no
\* exception is raised.
C21_NoDataResult ==
    ChannelMissing =>
        /\ stats # NoStats => stats.kind = "No data loaded"
        /\ plot # NoPlot => plot.kind = "Recurrence demo"

-----------------------------------------------------------------------------
(* A claim about the reads of parseDat, checked under SpecDat *)

\* C28: whenever parseDat does not raise, every 16-bit read lies inside the
\* buffer (its byte offset off has off + 2 <= byteLength), so the guard for
\* trailing padding is never taken and every channel holds a decoded value
\* at every sample index below the effective sample count.
C28_ReadsInBounds ==
    DatOk =>
        /\ \A ch \in 1..Len(datOut.traces) :
               Len(datOut.traces[ch]) = FirstLength(datOut.traces)
        /\ \A cs \in DecodedSamples :
               /\ (cs[2] * datMeta.nLeads + cs[1]) * 2 + 2 <= Len(datBuf)
               /\ datOut.traces[cs[1] + 1][cs[2] + 1] =
                      fround(Quotient(datBuf, datMeta, cs[1], cs[2], 0))

\* two channels, one whole frame and a trailing byte that fills no frame
C28_Witness ==
    /\ DatOk
    /\ datMeta.nLeads = 2
    /\ Len(datOut.traces) = 2
    /\ Len(datOut.traces[2]) = 1
    /\ Len(datBuf) = 5

-----------------------------------------------------------------------------
(* Playback of the Continuous view: the interval's callback, the playback
   buttons, the selectors of the sidebar *)

\* const minWindowSize = 100, const maxWindowSize = 5000
MinWindowSize ==
    100

MaxWindowSize ==
    5000

\* a ref of continuousRefs holds an element while the panel of that channel
\* is rendered
PanelMounted(id) ==
    /\ viewerMode = "Continuous"
    /\ graphData.set
    /\ displayMode = "Multi-Panel"
    /\ \E i \in 1..Len(channels) : channels[i].id = id /\ channels[i].visible

\* overlayRef holds an element while the overlay plot is rendered
OverlayMounted ==
    viewerMode = "Continuous" /\ graphData.set /\ displayMode = "Overlay"

\* channels.forEach(ch => { if (ch.visible && continuousRefs.current[ch.id]) ... })
\* over the channels the callback of interval t closes over
RelayoutPanels(t) ==
    {t.channels[i].id : i \in {j \in 1..Len(t.channels) :
        t.channels[j].visible /\ PanelMounted(t.channels[j].id)}}

\* if (displayMode === 'Overlay' && overlayRef.current)
RelayoutOverlay(t) ==
    t.displayMode = "Overlay" /\ OverlayMounted

\* the cursor is reset once it has reached totalPoints - wsize
WrappedEarly(next, t) ==
    IF ~NumLess(next, <<t.totalPoints - t.wsize, 1>>) THEN <<0, 1>> ELSE next

\* if (playIndexRef.current > totalPoints - wsize) playIndexRef.current = 0
Wrapped(next, t) ==
    IF NumLess(<<t.totalPoints - t.wsize, 1>>, next) THEN <<0, 1>> ELSE next

\* the callback of interval t
TickOf(t) ==
    LET c == Wrapped(NumAdd(playIndex, NumMul(<<5, 1>>, t.speed)), t)
    IN  /\ playIndex' = c
        /\ relayout' = [set |-> TRUE,
                        range |-> <<c, NumAdd(c, <<t.wsize, 1>>)>>,
                        panels |-> RelayoutPanels(t),
                        overlay |-> RelayoutOverlay(t)]
        /\ UNCHANGED <<playing, speed, windowSize, stoppedIndex, displayMode, timers>>
        /\ UNCHANGED <<parseVars, panelVars, viewVars, sessVars>>

\* an interval that is set fires
Tick ==
    \E i \in 1..Len(timers) : TickOf(timers[i])

\* the Playback section, the Display radio and the channel list are rendered
\* in Continuous mode
PlaybackControls ==
    viewerMode = "Continuous"

\* the Play / Stop button
PlayStop ==
    /\ PlaybackControls
    /\ playing' = ~playing
    /\ IF playing
       THEN stoppedIndex' = playIndex /\ UNCHANGED playIndex
       ELSE playIndex' = stoppedIndex /\ UNCHANGED stoppedIndex
    /\ UNCHANGED <<speed, windowSize, displayMode, relayout>>
    /\ UNCHANGED <<parseVars, panelVars, viewVars, sessVars>>
    /\ PlaybackEffect

\* the Reset button
Reset ==
    /\ PlaybackControls
    /\ playIndex' = <<0, 1>>
    /\ stoppedIndex' = <<0, 1>>
    /\ playing' = TRUE
    /\ UNCHANGED <<speed, windowSize, displayMode, relayout>>
    /\ UNCHANGED <<parseVars, panelVars, viewVars, sessVars>>
    /\ IF playing THEN UNCHANGED timers ELSE PlaybackEffect

\* setWindowSize(next) of the zoom buttons
SetWindowSize(next) ==
    /\ windowSize' = next
    /\ UNCHANGED <<playing, speed, playIndex, stoppedIndex, displayMode, relayout>>
    /\ UNCHANGED <<parseVars, panelVars, viewVars, sessVars>>
    /\ IF next = windowSize THEN UNCHANGED timers ELSE PlaybackEffect

\* zoomIn, its button disabled at the smallest window
ZoomIn ==
    /\ PlaybackControls
    /\ windowSize > MinWindowSize
    /\ SetWindowSize(Max(MinWindowSize, windowSize - 200))

\* the largest window the zoom-out button is pressed at
ZoomLimit ==
    200

\* zoomOut, its button disabled at the largest window
ZoomOut ==
    /\ PlaybackControls
    /\ windowSize < MaxWindowSize
    /\ windowSize < ZoomLimit
    /\ SetWindowSize(Min(MaxWindowSize, windowSize + 500))

\* positions of the Speed slider (0.25 to 4 in steps of 0.25): 0.5, 1 and 2
Speeds ==
    {<<1, 2>>, <<1, 1>>, <<2, 1>>}

\* setSpeed(s) of the Speed slider
SetSpeed(s) ==
    /\ PlaybackControls
    /\ s # speed
    /\ speed' = s
    /\ UNCHANGED <<playing, windowSize, playIndex, stoppedIndex, displayMode, relayout>>
    /\ UNCHANGED <<parseVars, panelVars, viewVars, sessVars>>
    /\ PlaybackEffect

\* setDisplayMode(m) of the Display radio buttons
SetDisplayMode(m) ==
    /\ PlaybackControls
    /\ displayMode' = m
    /\ UNCHANGED <<playing, speed, windowSize, playIndex, stoppedIndex, timers, relayout>>
    /\ UNCHANGED <<parseVars, panelVars, viewVars, sessVars>>

\* a button of the Signal Type selector
SwitchSignalType(id) ==
    /\ signalType' = id
    /\ fileFormat' = "csv"
    /\ graphData' = NoGraph
    /\ channels' = <<>>
    /\ heaMeta' = NoMeta
    /\ datFileRef' = NoFile
    /\ reports' = NoReports
    /\ UNCHANGED <<heaFile, datFile, pairSel, loading, alertMsg, requests>>
    /\ UNCHANGED <<playing, speed, windowSize, playIndex, stoppedIndex, displayMode, relayout>>
    /\ UNCHANGED <<parseVars, viewVars>>
    /\ IF graphData.set THEN PlaybackEffect ELSE UNCHANGED timers

\* the formats the Signal Input selector offers
FormatsOf(type) ==
    IF type = "eeg" THEN {"csv", "npy"} ELSE {"csv", "wfdb"}

\* a button of the Signal Input selector
SelectFormat(id) ==
    /\ id \in FormatsOf(signalType)
    /\ fileFormat' = id
    /\ heaMeta' = NoMeta
    /\ datFileRef' = NoFile
    /\ reports' = NoReports
    /\ UNCHANGED <<heaFile, datFile, graphData, channels, pairSel, loading, alertMsg>>
    /\ UNCHANGED <<signalType, requests>>
    /\ UNCHANGED <<parseVars, viewVars, playVars>>

-----------------------------------------------------------------------------
(* Playback of recordings dropped on the WFDB panel *)

\* "rec 1 250" with the signal line of the worked example: one lead
PlayHeader ==
    JoinLines(<<FirstOneLead, ChanMLII>>, <<"\n">>)

\* the samples of the long recording
LongSamples ==
    110

\* .dat files: a recording of zeros longer than the smallest window and one
\* of three samples
LongDat ==
    [i \in 1..(2 * LongSamples) |-> 0]

ShortDat ==
    <<100, 0, 156, 255, 200, 0>>

PlayDats ==
    {LongDat, ShortDat}

DropHea ==
    HeaOnFileOf(PlayHeader)

DropDat ==
    \E bytes \in PlayDats : DatOnFileOf(bytes)

NextPlay ==
    \/ DropHea
    \/ DropDat
    \/ PlayStop
    \/ Reset
    \/ ZoomIn
    \/ ZoomOut
    \/ \E s \in Speeds : SetSpeed(s)
    \/ \E id \in {"ecg", "eeg"} : SwitchSignalType(id)
    \/ \E id \in {"csv", "wfdb"} : SelectFormat(id)
    \/ Tick

SpecPlay ==
    StartView /\ [][NextPlay]_vars

-----------------------------------------------------------------------------
(* Playback while the channel list and the display mode change *)

\* the component once the WFDB format is selected, PlayHeader is dropped on
\* the .hea zone and a recording on the .dat zone
Loaded(bytes) ==
    LET meta   == parseHea(PlayHeader).meta
        traces == parseDat(bytes, meta).traces
    IN  /\ IdleHea /\ IdleDat /\ IdleXyz /\ IdleView /\ WfdbSess /\ IdlePlay
        /\ heaFile = <<>>
        /\ datFile = <<>>
        /\ heaMeta = meta
        /\ graphData = [set |-> TRUE,
                        time |-> TimeAxis(FirstLength(traces), meta.fs),
                        traces |-> traces]
        /\ channels = NewChannels(meta.leadNames)
        /\ datFileRef = [kept |-> TRUE, bytes |-> bytes]
        /\ pairSel = [chA |-> 0, chB |-> Min(1, Len(meta.leadNames) - 1),
                      sampleCount |-> SampleCountFor(FirstLength(traces)),
                      allSamples |-> FALSE]
        /\ loading = FALSE
        /\ alertMsg = NoAlert

StartPanels ==
    Loaded(LongDat)

NextPanels ==
    \/ PlayStop
    \/ Reset
    \/ ZoomIn
    \/ \E m \in {"Multi-Panel", "Overlay"} : SetDisplayMode(m)
    \/ Toggle
    \/ Tick

SpecPanels ==
    StartPanels /\ [][NextPanels]_vars

-----------------------------------------------------------------------------
(* Claims about playback, checked under SpecPlay and SpecPanels *)

\* N, the sample count of the loaded model
TotalSamples ==
    Len(graphData.time)

\* the cursor before a tick plus 5 times the speed is greater than bound:
\* n/d + 5 * sn/sd > bound, cleared of its denominators
AdvancedBeyond(bound) ==
    playIndex[1] * speed[2] + 5 * speed[1] * playIndex[2]
        > bound * playIndex[2] * speed[2]

\* the number c is the cursor before a tick plus 5 times the speed
IsAdvanced(c) ==
    c[1] * playIndex[2] * speed[2]
        = (playIndex[1] * speed[2] + 5 * speed[1] * playIndex[2]) * c[2]

\* the number hi is the number lo plus the integer w
IsShifted(lo, hi, w) ==
    hi[1] * lo[2] = (lo[1] + w * lo[2]) * hi[2]

\* C22: each tick advances the cursor by 5 times the speed and resets it to
\* 0 if the advanced value is greater than N - W, for the sample count N of
\* the model and the window size W; the range handed to the plots at that
\* tick runs from the resulting cursor c to c + W.
C22_TickAdvance ==
    [][Tick =>
        /\ IF AdvancedBeyond(TotalSamples - windowSize)
           THEN playIndex' = <<0, 1>>
           ELSE IsAdvanced(playIndex')
        /\ relayout'.set
        /\ relayout'.range[1] = playIndex'
        /\ IsShifted(playIndex', relayout'.range[2], windowSize)]_vars

\* a tick at half speed has advanced the cursor from 0 to 2.5
C22_Witness ==
    /\ relayout.set
    /\ playIndex = <<5, 2>>
    /\ relayout.range = <<<<5, 2>>, <<205, 2>>>>

\* a tick has reset the cursor of the long recording
C22_WitnessReset ==
    /\ relayout.set
    /\ TotalSamples = LongSamples
    /\ windowSize = MinWindowSize
    /\ stoppedIndex = <<10, 1>>
    /\ playIndex = <<0, 1>>
    /\ relayout.range = <<<<0, 1>>, <<100, 1>>>>

\* C25: whenever a model of N samples is loaded the cursor c satisfies
\* 0 <= c <= max(0, N - W) for the current window size W.
C25_CursorInRange ==
    graphData.set =>
        /\ playIndex[1] >= 0
        /\ playIndex[1] <= Max(0, TotalSamples - windowSize) * playIndex[2]

\* C26: exactly one interval is set while playing is true and a model is
\* loaded, and none otherwise; no tick advances the cursor while playback is
\* stopped or no model is loaded.
C26_OneTimer ==
    /\ [](Len(timers) = IF playing /\ graphData.set THEN 1 ELSE 0)
    /\ [][Tick => playing /\ graphData.set]_vars

\* playback was stopped, the window zoomed and playback resumed: one interval
\* is set and it has fired
C26_Witness ==
    /\ playing /\ graphData.set
    /\ Len(timers) = 1
    /\ windowSize = MinWindowSize
    /\ stoppedIndex = <<5, 1>>
    /\ relayout.set /\ relayout.range[1] = <<10, 1>>

\* the channels shown at the time of a tick: in Multi-Panel mode every
\* visible channel has a plot, in Overlay mode the overlay plot shows them
VisiblePanels ==
    IF displayMode = "Multi-Panel"
    THEN {channels[i].id : i \in {j \in 1..Len(channels) : channels[j].visible}}
    ELSE {}

\* C27: every tick hands the new range to the plot of every channel that is
\* visible at that time, and to the overlay plot when the display mode is
\* Overlay at that time.
C27_TickReachesVisible ==
    [][Tick =>
        /\ relayout'.panels = VisiblePanels
        /\ relayout'.overlay = (displayMode = "Overlay")]_vars

-----------------------------------------------------------------------------
(* The Continuous render effect and the viewer-mode tabs *)

\* the channels the effect draws: visibleChannels
DrawnChannels ==
    {i \in 1..Len(channels) :
        channels[i].visible /\ channels[i].id < Len(graphData.traces)}

\* xRange of the effect
ContinuousRange ==
    LET start == IF playing THEN playIndex ELSE stoppedIndex
    IN  <<start, NumAdd(start, <<windowSize, 1>>)>>

\* what the Continuous effect hands to Plotly.react: one plot a visible
\* channel in Multi-Panel mode, one plot of all of them in Overlay mode
ContinuousPlot ==
    [kind |-> "Continuous",
     mode |-> displayMode,
     range |-> ContinuousRange,
     x |-> Len(graphData.time),
     y |-> {<<channels[i].id, graphData.traces[channels[i].id + 1]>> :
               i \in DrawnChannels}]

\* the Continuous render effect
ContinuousRender ==
    /\ graphData.set
    /\ viewerMode = "Continuous"
    /\ plot' = ContinuousPlot
    /\ UNCHANGED <<viewerMode, chunkSize, periodicity, stats>>
    /\ UNCHANGED <<parseVars, panelVars, sessVars, playVars>>

\* setViewerMode(m) of the Viewer Mode tabs
SetViewerMode(m) ==
    /\ viewerMode' = m
    /\ UNCHANGED <<chunkSize, periodicity, plot, stats>>
    /\ UNCHANGED <<parseVars, panelVars, sessVars, playVars>>

\* the models the four views are computed of
ModeModels ==
    {ModelOf(ExampleA, ExampleB), ModelOf(SkewedA, SkewedB)}

StartModes ==
    /\ IdleHea /\ IdleDat /\ IdleXyz /\ IdleView /\ IdleSess /\ IdlePlay
    /\ heaFile = <<>>
    /\ datFile = <<>>
    /\ heaMeta = NoMeta
    /\ datFileRef = NoFile
    /\ loading = FALSE
    /\ alertMsg = NoAlert
    /\ graphData \in ModeModels
    /\ channels = ChannelsOf(graphData)
    /\ pairSel = PairOf(graphData, 0, 1)

NextModes ==
    \/ \E m \in {"Continuous", "XOR", "Polar", "Recurrence"} : SetViewerMode(m)
    \/ ContinuousRender
    \/ XorRender
    \/ PolarRender
    \/ PolarCard
    \/ RecurrenceRender
    \/ TrajectoryCard
    \/ PlayStop
    \/ ZoomIn
    \/ Tick

SpecModes ==
    StartModes /\ [][NextModes]_vars

\* a step of a render effect or of a statistics card
RenderStep ==
    \/ ContinuousRender
    \/ XorRender
    \/ PolarRender
    \/ PolarCard
    \/ RecurrenceRender
    \/ TrajectoryCard

\* the XOR, Polar and Recurrence plot and the statistics that were computed
\* last are what computing them again gives
LastResultsStand ==
    /\ plot.kind = XorPlot.kind => plot = XorPlot
    /\ plot.kind = PolarPlot.kind => plot = PolarPlot
    /\ plot.kind = RecurrencePlot.kind => plot = RecurrencePlot
    /\ stats.kind = PolarStats.kind => stats = PolarStats
    /\ stats.kind = TrajectoryStats.kind => stats = TrajectoryStats

-----------------------------------------------------------------------------
(* Uploads through the backend, the WFDB panel and Send for Analysis *)

\* the files dropped on the .csv and .npy zones, named by their content
UploadFiles ==
    {"a", "b"}

\* the response of the backend to an uploaded file: one channel of two
\* samples for "a", two channels of one sample for "b", an error otherwise
ReplyTo(file) ==
    IF file = "a"
    THEN [error |-> FALSE, keys |-> <<<<"I">>>>,
          signals |-> <<<<<<0, 1>>, <<1, 1>>>>>>, time |-> <<<<0, 1>>, <<1, 1>>>>]
    ELSE IF file = "b"
    THEN [error |-> FALSE, keys |-> <<<<"I">>, <<"V">>>>,
          signals |-> <<<<<<1, 2>>>>, <<<<-1, 1>>>>>>, time |-> <<<<0, 1>>>>]
    ELSE [error |-> TRUE, keys |-> <<>>, signals |-> <<>>, time |-> <<>>]

\* the most requests sent to the backend
MaxRequests ==
    2

\* a FileUpload with onFile = handleFileUpload is rendered
UploadZone ==
    fileFormat = "csv" \/ (fileFormat = "npy" /\ signalType = "eeg")

\* handleFileUpload(file) up to its await of fetch, for the eeg and the csv
\* branch
BeginUpload(file) ==
    /\ UploadZone
    /\ signalType = "eeg" \/ fileFormat = "csv"
    /\ Len(requests) < MaxRequests
    /\ loading' = TRUE
    /\ playing' = FALSE
    /\ playIndex' = <<0, 1>>
    /\ stoppedIndex' = <<0, 1>>
    /\ windowSize' = UploadWindowSize
    /\ reports' = NoReports
    /\ requests' = Append(requests,
            [kind |-> "upload", branch |-> IF signalType = "eeg" THEN "eeg" ELSE "csv",
             type |-> signalType, format |-> fileFormat, file |-> file,
             dat |-> <<>>, meta |-> NoMeta, done |-> FALSE])
    /\ UNCHANGED <<heaFile, datFile, heaMeta, graphData, channels, datFileRef,
                   pairSel, alertMsg>>
    /\ UNCHANGED <<signalType, fileFormat, speed, displayMode, relayout>>
    /\ UNCHANGED <<parseVars, viewVars>>
    /\ IF playing \/ windowSize # UploadWindowSize
       THEN PlaybackEffect ELSE UNCHANGED timers

\* the rest of handleFileUpload once the response to request i has arrived
CompleteUpload(i) ==
    LET req   == requests[i]
        reply == ReplyTo(req.file)
    IN  /\ req.kind = "upload" /\ ~req.done
        /\ requests' = [requests EXCEPT ![i].done = TRUE]
        /\ loading' = FALSE
        /\ IF reply.error
           THEN /\ alertMsg' = [from |-> "upload", message |-> "details"]
                /\ UNCHANGED <<graphData, channels, pairSel, reports, timers>>
           ELSE /\ reports' = [set |-> TRUE, of |-> req.file]
                /\ IF req.branch = "eeg" /\ Len(reply.keys) = 0
                   THEN UNCHANGED <<graphData, channels, pairSel, timers>>
                   ELSE /\ applySignals(reply.keys, reply.signals, reply.time)
                        /\ UNCHANGED <<playing, speed, windowSize, displayMode>>
                        /\ PlaybackEffect
                /\ UNCHANGED alertMsg
        /\ UNCHANGED <<heaFile, datFile, heaMeta, datFileRef>>
        /\ UNCHANGED <<signalType, fileFormat>>
        /\ UNCHANGED <<playing, speed, windowSize, playIndex, stoppedIndex,
                       displayMode, relayout>>
        /\ UNCHANGED <<parseVars, viewVars>>

\* the button is rendered when datFileRef && heaMeta, and disabled while
\* wfdbAnalysing
SendEnabled ==
    /\ WfdbZones
    /\ datFileRef.kept
    /\ heaMeta # NoMeta
    /\ \A i \in 1..Len(requests) : requests[i].kind = "analysis" => requests[i].done

\* onClick of Send for Analysis up to its await of fetch
SendForAnalysis ==
    /\ SendEnabled
    /\ Len(requests) < MaxRequests
    /\ reports' = NoReports
    /\ requests' = Append(requests,
            [kind |-> "analysis", branch |-> "wfdb",
             type |-> signalType, format |-> fileFormat, file |-> "",
             dat |-> datFileRef.bytes, meta |-> heaMeta, done |-> FALSE])
    /\ UNCHANGED <<signalType, fileFormat>>
    /\ UNCHANGED <<parseVars, panelVars, viewVars, playVars>>

\* the rest of the onClick once the response to request i has arrived: an
\* error is alerted, an analysis is stored
CompleteAnalysis(i, ok) ==
    /\ requests[i].kind = "analysis" /\ ~requests[i].done
    /\ requests' = [requests EXCEPT ![i].done = TRUE]
    /\ IF ok
       THEN reports' = [set |-> TRUE, of |-> "wfdb"] /\ UNCHANGED alertMsg
       ELSE alertMsg' = [from |-> "analysis", message |-> "details"] /\ UNCHANGED reports
    /\ UNCHANGED <<heaFile, datFile, heaMeta, graphData, channels, datFileRef,
                   pairSel, loading>>
    /\ UNCHANGED <<signalType, fileFormat>>
    /\ UNCHANGED <<parseVars, viewVars, playVars>>

\* "rec 1 250" with the signal line of gain 3 and baseline -1
OtherHeader ==
    JoinLines(<<FirstOneLead, ChanBaseline>>, <<"\n">>)

\* the headers and recordings dropped on the WFDB panel: one lead with a gain
\* of 200 or of 3; three samples, or a single byte
SessHeaders ==
    {PlayHeader, OtherHeader}

SingleByte ==
    <<1>>

SessDats ==
    {ShortDat, SingleByte}

NextSess ==
    \/ \E id \in {"ecg", "eeg"} : SwitchSignalType(id)
    \/ \E id \in {"csv", "wfdb", "npy"} : SelectFormat(id)
    \/ \E text \in SessHeaders : HeaOnFileOf(text)
    \/ \E bytes \in SessDats : DatOnFileOf(bytes)
    \/ \E file \in UploadFiles : BeginUpload(file)
    \/ \E i \in 1..Len(requests) : CompleteUpload(i)
    \/ SendForAnalysis
    \/ \E i \in 1..Len(requests), ok \in BOOLEAN : CompleteAnalysis(i, ok)

SpecSess ==
    StartView /\ [][NextSess]_vars

-----------------------------------------------------------------------------
(* Claims about uploads and the WFDB panel, checked under SpecSess *)

\* a later upload than request i has been answered already, or the signal
\* type or the file format is no longer the one request i was sent under
Superseded(i) ==
    \/ \E j \in (i + 1)..Len(requests) :
            requests[j].kind = "upload" /\ requests[j].done
    \/ requests[i].type # signalType
    \/ requests[i].format # fileFormat

\* C24: the response to an upload that a newer upload has superseded, or
\* that arrives after the user switched the signal type or the file format,
\* is discarded: it replaces neither the channel model nor the channel list
\* nor the reports.
C24_SupersededDiscarded ==
    [][\A i \in 1..Len(requests) :
            CompleteUpload(i) /\ Superseded(i) =>
                /\ graphData' = graphData
                /\ channels' = channels
                /\ reports' = reports]_vars

\* the decode of a .dat file fails under the stored header
DecodeFails(bytes) ==
    heaMeta.nLeads = 0 \/ Len(bytes) < 2 * heaMeta.nLeads

\* C29: a .dat upload whose decode fails leaves the displayed model, the
\* channel list and the retained .dat file as they were, and a request sent
\* by Send for Analysis never carries a file that fails to decode under the
\* header sent with it.
C29_FailedDecodeKeepsState ==
    /\ [][\A bytes \in SessDats :
            DatOnFileOf(bytes) /\ DecodeFails(bytes) =>
                /\ graphData' = graphData
                /\ channels' = channels
                /\ datFileRef' = datFileRef]_vars
    /\ [](\A i \in 1..Len(requests) :
            requests[i].kind = "analysis" =>
                parseDat(requests[i].dat, requests[i].meta).err = "none")

\* C30: whenever Send for Analysis is offered (a .dat file and a header are
\* stored) the displayed model is the decode of that file under that header,
\* and the .dat handler decodes only while a header is stored.
C30_HeaderMatchesModel ==
    /\ [](datFileRef.kept /\ heaMeta # NoMeta =>
            LET r == parseDat(datFileRef.bytes, heaMeta)
            IN  /\ r.err = "none"
                /\ graphData = [set |-> TRUE,
                                time |-> TimeAxis(FirstLength(r.traces), heaMeta.fs),
                                traces |-> r.traces])
    /\ [][(\E bytes \in SessDats : DatOnFileOf(bytes)) => heaMeta # NoMeta]_vars

====
